---- MODULE Spec2Model ----
(***************************************************************************)
(* A model of the rhythm-spy BPM analyser.                                 *)
(*                                                                         *)
(*   - src/src/lib/audio-utils.ts: analyzeBPM, normalizeAudio, detectBPM   *)
(*     and the functions below it, as operators over exact arithmetic,     *)
(*     driven step by step by the actions of Spec (one call), SpecCalls    *)
(*     (calls one after the other) and SpecTempo (findTempo alone);        *)
(*   - src/src/components/AudioPlayer.tsx (lines 470-665, the batch        *)
(*     driver BatchProcessor): its React state and the asynchronous        *)
(*     processBatch loops, as the actions of SpecBatch, and of SpecRun     *)
(*     for a run without Pause and Reset, and of SpecSelect with the       *)
(*     files prop replaced while the component is mounted;                 *)
(*   - src/unnamed/part_001 (the Index page) with the AudioPlayer's        *)
(*     analyzeAudio and the BPMDisplay it feeds, as the actions of         *)
(*     SpecPage;                                                           *)
(*   - src/src/components/FileUpload.tsx: validateFile and the drop and    *)
(*     file input handlers, as the actions of SpecUpload.                  *)
(*                                                                         *)
(* Numbers.  A JavaScript number that may be a fraction, an infinity or    *)
(* NaN is a pair <<n, d>>: the fraction n/d in lowest terms with d > 0,    *)
(* <<1, 0>> for +Infinity, <<-1, 0>> for -Infinity and <<0, 0>> for NaN.   *)
(* Arithmetic is exact: the rounding of IEEE doubles is not modelled, and  *)
(* the sign of zero is not modelled.                                       *)
(*                                                                         *)
(* Sample buffers.  A buffer is [length, hops]: it has `length` samples,   *)
(* the sample at index k * hopSize is hops[k] (k = 1 .. Len(hops)) and     *)
(* every other sample is 0.  Sample values are fixed-point integers, in    *)
(* units of 1 / One.  For such a buffer the analysis window that starts at *)
(* w * hopSize holds at most one non-zero weighted sample, the one at      *)
(* offset hopSize (offset 0 has Hann weight 0), so its RMS energy is       *)
(* |hops[w+1]| * hann[hopSize] / sqrt(windowSize): onset values are kept   *)
(* as the integers |hops[w+1]|, in units of that constant.                 *)
(***************************************************************************)
EXTENDS Integers, Sequences, FiniteSets, TLC

\* ------------------------------------------------------------------------
\* State
\* ------------------------------------------------------------------------

VARIABLES
  \* analyzeBPM / detectBPM
  pc,              \* where the call of analyzeBPM is
  audioContext,    \* "open" | "closed": the AudioContext of the call
  sampleRate,      \* audioBuffer.sampleRate
  given,           \* the decoded channel as the caller handed it in
  trackPeriod,     \* the period in hops of a click track, else 0
  channelData,     \* the contents of the caller's array now
  normalizedData,  \* detectBPM's audioData
  sameArray,       \* normalizeAudio returned its argument array
  onsets,
  filteredOnsets,
  bpmCandidates,   \* findStableTempo's candidates
  stableBPM,       \* findStableTempo's result
  result,          \* what analyzeBPM resolves with
  history,         \* <<given, sampleRate, result>> of the calls resolved so far
  \* BatchProcessor
  results,         \* status, bpm and error of the entries of results
  resultFiles,     \* the file of the entries of results
  currentIndex, isProcessing, isPaused, loops, batchResults,
  \* findTempo, step by step
  peakList,           \* findTempo's peaks
  intervalList,       \* findTempo's intervals
  intervalHistogram,  \* findTempo's histogram
  dominantBPM,
  bestBPM,            \* estimateBPMFromEnergy's bestBPM after the lag loop
  maxCorrelation,     \* estimateBPMFromEnergy's maxCorrelation, <<sum, count>>
  \* Index, AudioPlayer and FileUpload
  mode,               \* Index's mode: "single" | "batch"
  audioFile,          \* Index's audioFile, NoFile for null
  audioUrl,           \* Index's audioUrl: the file the URL is of, or NoFile
  indexBpm,           \* Index's bpm, 0 for null
  isAnalyzing,        \* Index's isAnalyzing
  playerIsAnalyzing,  \* isAnalyzing of the mounted AudioPlayer
  analyses,           \* the calls of analyzeAudio that await analyzeBPM
  batchFiles,         \* Index's batchFiles: the files prop of BatchProcessor
  dropped,            \* the files of a drop or file input, not yet handled
  selected            \* what FileUpload last passed on, and through which prop

callVars == <<pc, audioContext, sampleRate, given, trackPeriod, channelData,
              normalizedData, sameArray, onsets, filteredOnsets,
              bpmCandidates, stableBPM, result, history>>
batchVars == <<results, resultFiles, currentIndex, isProcessing, isPaused,
               loops, batchResults>>
tempoVars == <<peakList, intervalList, intervalHistogram, dominantBPM,
               bestBPM, maxCorrelation>>
uiVars == <<mode, audioFile, audioUrl, indexBpm, isAnalyzing,
            playerIsAnalyzing, analyses, batchFiles, dropped, selected>>
vars == <<callVars, batchVars, tempoVars, uiVars>>

\* ------------------------------------------------------------------------
\* Bounds of the model
\* ------------------------------------------------------------------------

\* Longest exhaustively enumerated buffer, in hops.
MaxHops == 4
\* Largest sample of an exhaustively enumerated buffer.
MaxShortAmp == 1
\* Largest sample of a click track or of a buffer with one or two samples set.
MaxAmp == 2
\* Longest motif (pulse shape, in hops) of a generated click track.
MaxMotif == 3
\* Length in hops of the buffers that are silent but for one or two samples.
LoneHops == 16
\* Calls of analyzeBPM that resolve one after the other.
MaxCalls == 3
\* Files of a batch.
MaxFiles == 2
\* Calls of processBatch that run at the same time.
MaxLoops == 2
\* Files of a batch that is run without interruption.
MaxRunFiles == 4
\* Longest exhaustively enumerated onset sequence.
MaxOnsetLen == 6
\* Largest onset value of an enumerated onset sequence.
MaxOnset == 2
\* Length of the onset sequences that are zero but for a few unit pulses.
SparseLen == 14
\* Most pulses of such a sequence.
MaxPulses == 4
\* Files that the user of the single-file page chooses from.
MaxPageFiles == 2
\* Calls of analyzeAudio that run at the same time.
MaxAnalyses == 2
\* Longest enumerated file name, in characters.
MaxNameLen == 5
\* Most files of a multiple selection.
MaxDropped == 3

\* ------------------------------------------------------------------------
\* Program constants (detectBPM)
\* ------------------------------------------------------------------------

windowSize == 1024
hopSize == 512
minBPM == 60
maxBPM == 200
\* medianFilter(onsets, 3)
medianWindow == 3
\* findDominantBPM / estimateBPMFromEnergy default
defaultBPM == 120

\* ------------------------------------------------------------------------
\* Numbers
\* ------------------------------------------------------------------------

NaN == <<0, 0>>
PosInf == <<1, 0>>
NegInf == <<-1, 0>>

Abs(x) == IF x < 0 THEN -x ELSE x
Sign(x) == IF x > 0 THEN 1 ELSE IF x < 0 THEN -1 ELSE 0
Min(a, b) == IF a < b THEN a ELSE b

RECURSIVE GCD(_, _)
GCD(a, b) == IF b = 0 THEN a ELSE GCD(b, a % b)

RECURSIVE LCMUpTo(_)
LCMUpTo(k) == IF k <= 1 THEN 1
              ELSE LET l == LCMUpTo(k - 1) IN (l * k) \div GCD(l, k)

\* n / d as a number: x / 0 is an infinity of x's sign, 0 / 0 is NaN.
Frac(n, d) ==
  IF d = 0 THEN <<Sign(n), 0>>
  ELSE LET g == GCD(Abs(n), Abs(d))
           s == Sign(d)
       IN <<(s * n) \div g, (s * d) \div g>>

Num(k) == <<k, 1>>
IsNaN(x) == x = NaN
IsFinite(x) == x[2] # 0

\* x / y
NumDiv(x, y) ==
  IF IsNaN(x) \/ IsNaN(y) THEN NaN
  ELSE IF ~IsFinite(x)
    THEN IF ~IsFinite(y) THEN NaN
         ELSE <<x[1] * (IF y[1] < 0 THEN -1 ELSE 1), 0>>
  ELSE IF ~IsFinite(y) THEN Num(0)
  ELSE Frac(x[1] * y[2], x[2] * y[1])

\* x < y (false when either is NaN)
NumLess(x, y) ==
  IF IsNaN(x) \/ IsNaN(y) THEN FALSE
  ELSE IF ~IsFinite(x) THEN x = NegInf /\ y # NegInf
  ELSE IF ~IsFinite(y) THEN y = PosInf
  ELSE x[1] * y[2] < y[1] * x[2]

\* x <= y (false when either is NaN)
NumLeq(x, y) == ~IsNaN(x) /\ ~IsNaN(y) /\ (x = y \/ NumLess(x, y))

\* Math.min, Math.max: NaN when either argument is NaN
MathMin(x, y) ==
  IF IsNaN(x) \/ IsNaN(y) THEN NaN ELSE IF NumLess(y, x) THEN y ELSE x
MathMax(x, y) ==
  IF IsNaN(x) \/ IsNaN(y) THEN NaN ELSE IF NumLess(x, y) THEN y ELSE x

\* Math.round: floor(x + 0.5); infinities and NaN are returned as they are
MathRound(x) ==
  IF IsFinite(x) THEN Num((2 * x[1] + x[2]) \div (2 * x[2])) ELSE x

\* Math.floor(a / b) for integers a and b > 0
FloorDiv(a, b) == a \div b

\* ------------------------------------------------------------------------
\* Sequences
\* ------------------------------------------------------------------------

\* sum of f[lo .. hi], halving the range to keep the recursion shallow
RECURSIVE SumRange(_, _, _)
SumRange(f, lo, hi) ==
  IF lo > hi THEN 0
  ELSE IF lo = hi THEN f[lo]
  ELSE LET mid == (lo + hi) \div 2
       IN SumRange(f, lo, mid) + SumRange(f, mid + 1, hi)

Sum(s) == SumRange(s, 1, Len(s))

\* Array.prototype.sort((a, b) => a - b) of a short array: insertion sort
RECURSIVE Insert(_, _)
Insert(x, s) ==
  IF s = <<>> THEN <<x>>
  ELSE IF x < Head(s) THEN <<x>> \o s
  ELSE <<Head(s)>> \o Insert(x, Tail(s))

RECURSIVE SortAscending(_)
SortAscending(s) ==
  IF s = <<>> THEN <<>>
  ELSE LET n == Len(s) IN Insert(s[n], SortAscending(SubSeq(s, 1, n - 1)))

\* Array.prototype.slice(start, end), 0-based and end-exclusive
Slice(s, start, end) == SubSeq(s, start + 1, end)

\* the array with elements f[1], ..., f[n], each computed once
Array(f) == f \o <<>>

\* the number of entries of s equal to v
Count(s, v) == Cardinality({i \in 1..Len(s) : s[i] = v})

\* ------------------------------------------------------------------------
\* Sample buffers
\* ------------------------------------------------------------------------

\* The fixed-point representation of the sample value 1.0: every quotient
\* x / maxVal that normalizeAudio forms (maxVal <= 2 * MaxAmp) is exact.
One == LCMUpTo(2 * MaxAmp)

\* audioData[pos] (0-based)
SampleAt(audioData, pos) ==
  IF pos % hopSize = 0 /\ pos \div hopSize \in 1..Len(audioData.hops)
    THEN audioData.hops[pos \div hopSize]
    ELSE 0

\* the buffer of `length` samples whose hop-aligned samples are hops
Buffer(length, hops) == [length |-> length, hops |-> hops]

\* how many hop-aligned sample positions k * hopSize (k >= 1) a buffer holds
HopsIn(length) == IF length = 0 THEN 0 ELSE (length - 1) \div hopSize

\* ------------------------------------------------------------------------
\* src/src/lib/audio-utils.ts
\* ------------------------------------------------------------------------

\* The largest |audioData[i]| (the first loop of normalizeAudio).
MaxAbs(hops) ==
  LET values == {Abs(hops[k]) : k \in 1..Len(hops)} \cup {0}
  IN CHOOSE m \in values : \A v \in values : v <= m

\* normalizeAudio scaling the argument array in place.
normalizeAudioInPlace(audioData) ==
  LET maxVal == MaxAbs(audioData.hops)
      normalized ==
        Buffer(audioData.length,
               Array([k \in 1..Len(audioData.hops) |->
                        (audioData.hops[k] * One) \div maxVal]))
  IN [ret |-> IF maxVal > 0 THEN normalized ELSE audioData,
      same |-> TRUE,
      audioData |-> IF maxVal > 0 THEN normalized ELSE audioData]

\* normalizeAudio.  Returns [ret, same, audioData]: the array returned,
\* whether it is the argument array itself, and the contents of the argument
\* array after the call.  With maxVal > 0 the result is a new array;
\* otherwise the argument itself is returned.
normalizeAudio(audioData) ==
  LET maxVal == MaxAbs(audioData.hops)
      normalized ==
        Buffer(audioData.length,
               Array([k \in 1..Len(audioData.hops) |->
                        (audioData.hops[k] * One) \div maxVal]))
  IN [ret |-> IF maxVal > 0 THEN normalized ELSE audioData,
      same |-> ~(maxVal > 0),
      audioData |-> audioData]

\* createHannWindow(windowSize)[j] at the offsets j that are multiples of
\* hopSize, in units of hann[hopSize]: 0.5 * (1 - cos(0)) is exactly 0 at
\* offset 0.
createHannWindow(j) == IF j = 0 THEN 0 ELSE 1

\* the integer square root of a perfect square
ISqrt(e) == CHOOSE r \in 0..e : r * r = e

\* calculateSpectralFlux: sqrt(energy / window.length), in units of
\* 1 / sqrt(windowSize).  `window` holds the weighted samples at the
\* hop-aligned offsets; the other entries of the window are 0.
calculateSpectralFlux(window) ==
  ISqrt(SumRange([j \in 1..Len(window) |-> window[j] * window[j]],
                 1, Len(window)))

\* The number of iterations of
\*   for (let i = 0; i < audioData.length - windowSize; i += hopSize)
WindowCount(length) ==
  IF length - windowSize <= 0 THEN 0
  ELSE ((length - windowSize - 1) \div hopSize) + 1

\* calculateOnsets.  Returns [ret, audioData].
calculateOnsets(audioData) ==
  LET offsets == [k \in 1..(((windowSize - 1) \div hopSize) + 1) |->
                    (k - 1) * hopSize]
      Window(i) == [k \in 1..Len(offsets) |->
                      SampleAt(audioData, i + offsets[k])
                        * createHannWindow(offsets[k])]
  IN [ret |-> Array([w \in 1..WindowCount(audioData.length) |->
                        calculateSpectralFlux(Window((w - 1) * hopSize))]),
      audioData |-> audioData]

\* medianFilter taking the lower of the two middle entries of an even window.
medianFilterLowerMiddle(data, filterWindow) ==
  LET halfWindow == filterWindow \div 2
      n == Len(data)
      Window(i) ==
        LET lo == IF i - halfWindow < 1 THEN 1 ELSE i - halfWindow
            hi == IF i + halfWindow > n THEN n ELSE i + halfWindow
        IN SortAscending(SubSeq(data, lo, hi))
  IN [ret |-> Array([i \in 1..n |->
                        LET window == Window(i)
                        IN window[(Len(window) + 1) \div 2]]),
      data |-> data]

\* medianFilter.  Returns [ret, data].
medianFilter(data, filterWindow) ==
  LET halfWindow == filterWindow \div 2
      n == Len(data)
      Window(i) ==
        LET lo == IF i - halfWindow < 1 THEN 1 ELSE i - halfWindow
            hi == IF i + halfWindow > n THEN n ELSE i + halfWindow
        IN SortAscending(SubSeq(data, lo, hi))
  IN [ret |-> Array([i \in 1..n |->
                        LET window == Window(i)
                        IN window[(Len(window) \div 2) + 1]]),
      data |-> data]

\* pickPeaks with a plateau counted as a peak (>= its neighbours).
pickPeaksNonStrict(data) ==
  LET n == Len(data)
      sum == Sum(data)
      sumSq == SumRange([j \in 1..n |-> data[j] * data[j]], 1, n)
      spread == 9 * (n * sumSq - sum * sum)
      IsPeak(i) ==
        /\ data[i + 1] >= data[i]
        /\ data[i + 1] >= data[i + 2]
        /\ LET dev == n * data[i + 1] - sum
           IN dev > 0 /\ 4 * dev * dev > spread
  IN IF n < 3 THEN <<>> ELSE SelectSeq([i \in 1..(n - 2) |-> i], IsPeak)

\* pickPeaks with a fixed threshold in place of mean + 1.5 * stdDev.
pickPeaksFixedThreshold(data) ==
  LET n == Len(data)
      IsPeak(i) ==
        /\ data[i + 1] > data[i]
        /\ data[i + 1] > data[i + 2]
        /\ data[i + 1] > MaxAmp
  IN IF n < 3 THEN <<>> ELSE SelectSeq([i \in 1..(n - 2) |-> i], IsPeak)

\* pickPeaks with the threshold 0.3 * max(data).
pickPeaksMaxThreshold(data) ==
  LET n == Len(data)
      maxVal == IF n = 0 THEN 0
                ELSE CHOOSE m \in {data[j] : j \in 1..n} :
                       \A j \in 1..n : data[j] <= m
      IsPeak(i) ==
        /\ data[i + 1] > data[i]
        /\ data[i + 1] > data[i + 2]
        /\ 10 * data[i + 1] > 3 * maxVal
  IN IF n < 3 THEN <<>> ELSE SelectSeq([i \in 1..(n - 2) |-> i], IsPeak)

\* pickPeaks with a loop over every index, the first and the last included.
pickPeaksWithEdges(data) ==
  LET n == Len(data)
      sum == Sum(data)
      sumSq == SumRange([j \in 1..n |-> data[j] * data[j]], 1, n)
      spread == 9 * (n * sumSq - sum * sum)
      IsPeak(i) ==
        /\ i = 0 \/ data[i + 1] > data[i]
        /\ i = n - 1 \/ data[i + 1] > data[i + 2]
        /\ LET dev == n * data[i + 1] - sum
           IN dev > 0 /\ 4 * dev * dev > spread
  IN IF n < 1 THEN <<>> ELSE SelectSeq([i \in 1..n |-> i - 1], IsPeak)

\* pickPeaks: the 0-based positions of the peaks, in increasing order.  The
\* threshold test data[i] > mean + stdDev * 1.5 is evaluated exactly: with S
\* the sum and n the length, data[i] - mean = (n*data[i] - S) / n and
\* stdDev^2 = (n * sum of squares - S^2) / n^2, so the comparison is
\*   n*data[i] - S > 0  and  4 * (n*data[i] - S)^2 > 9 * (n*sumSq - S^2).
pickPeaks(data) ==
  LET n == Len(data)
      sum == Sum(data)
      sumSq == SumRange([j \in 1..n |-> data[j] * data[j]], 1, n)
      spread == 9 * (n * sumSq - sum * sum)
      IsPeak(i) ==
        /\ data[i + 1] > data[i]
        /\ data[i + 1] > data[i + 2]
        /\ LET dev == n * data[i + 1] - sum
           IN dev > 0 /\ 4 * dev * dev > spread
  IN IF n < 3 THEN <<>> ELSE SelectSeq([i \in 1..(n - 2) |-> i], IsPeak)

\* The Map of createIntervalHistogram and of findStableTempo: a sequence of
\* <<key, count>> pairs in insertion order.
RECURSIVE MapIncrement(_, _)
MapIncrement(map, key) ==
  IF map = <<>> THEN << <<key, 1>> >>
  ELSE IF Head(map)[1] = key
    THEN << <<key, Head(map)[2] + 1>> >> \o Tail(map)
  ELSE <<Head(map)>> \o MapIncrement(Tail(map), key)

\* The scan of findDominantBPM replacing the best on count >= maxCount.
RECURSIVE FirstMaxEntryNonStrict(_, _, _)
FirstMaxEntryNonStrict(map, maxCount, best) ==
  IF map = <<>> THEN best
  ELSE IF Head(map)[2] >= maxCount
    THEN FirstMaxEntryNonStrict(Tail(map), Head(map)[2], Head(map)[1])
  ELSE FirstMaxEntryNonStrict(Tail(map), maxCount, best)

\* for (const [key, count] of map.entries())
\*   if (count > maxCount) { maxCount = count; best = key; }
RECURSIVE FirstMaxEntry(_, _, _)
FirstMaxEntry(map, maxCount, best) ==
  IF map = <<>> THEN best
  ELSE IF Head(map)[2] > maxCount
    THEN FirstMaxEntry(Tail(map), Head(map)[2], Head(map)[1])
  ELSE FirstMaxEntry(Tail(map), maxCount, best)

\* createIntervalHistogram with one bin for every integer BPM.
RECURSIVE createIntervalHistogramIntegerBins(_, _, _)
createIntervalHistogramIntegerBins(intervals, lo, hi) ==
  IF intervals = <<>> THEN <<>>
  ELSE LET n == Len(intervals)
           histogram ==
             createIntervalHistogramIntegerBins(SubSeq(intervals, 1, n - 1),
                                                lo, hi)
           bpm == NumDiv(Num(60), intervals[n])
           roundedBPM == MathRound(bpm)
       IN IF NumLeq(Num(lo), roundedBPM) /\ NumLeq(roundedBPM, Num(hi))
            THEN MapIncrement(histogram, roundedBPM)
            ELSE histogram

\* createIntervalHistogram that also counts every interval in the buckets of
\* half and of twice its tempo.
RECURSIVE createIntervalHistogramHarmonics(_, _, _)
createIntervalHistogramHarmonics(intervals, lo, hi) ==
  IF intervals = <<>> THEN <<>>
  ELSE LET n == Len(intervals)
           histogram ==
             createIntervalHistogramHarmonics(SubSeq(intervals, 1, n - 1),
                                              lo, hi)
           bpm == NumDiv(Num(60), intervals[n])
           half == MathRound(NumDiv(bpm, Num(2)))
           roundedBPM == IF IsFinite(half) THEN Num(half[1] * 2) ELSE half
           doubleTime == IF IsFinite(roundedBPM) THEN Num(roundedBPM[1] * 2)
                         ELSE roundedBPM
           Bounded(x) == NumLeq(Num(lo), x) /\ NumLeq(x, Num(hi))
           direct == IF Bounded(roundedBPM)
                       THEN MapIncrement(histogram, roundedBPM)
                       ELSE histogram
           halved == IF Bounded(half) THEN MapIncrement(direct, half)
                     ELSE direct
       IN IF Bounded(doubleTime) THEN MapIncrement(halved, doubleTime)
          ELSE halved

\* createIntervalHistogram
RECURSIVE createIntervalHistogram(_, _, _)
createIntervalHistogram(intervals, lo, hi) ==
  IF intervals = <<>> THEN <<>>
  ELSE LET n == Len(intervals)
           histogram == createIntervalHistogram(SubSeq(intervals, 1, n - 1),
                                                lo, hi)
           bpm == NumDiv(Num(60), intervals[n])
           half == MathRound(NumDiv(bpm, Num(2)))
           roundedBPM == IF IsFinite(half) THEN Num(half[1] * 2) ELSE half
       IN IF NumLeq(Num(lo), roundedBPM) /\ NumLeq(roundedBPM, Num(hi))
            THEN MapIncrement(histogram, roundedBPM)
            ELSE histogram

\* findDominantBPM without the default of 120.
findDominantBPMNoDefault(histogram, lo, hi) ==
  FirstMaxEntry(histogram, 0, Num(0))

\* findDominantBPM
findDominantBPM(histogram, lo, hi) ==
  FirstMaxEntry(histogram, 0, Num(defaultBPM))

\* The inner loop of estimateBPMFromEnergy for one lag: <<correlation sum,
\* count>> over lag <= i < onsets.length.
LagCorrelation(onsetSeq, lag) ==
  LET n == Len(onsetSeq)
  IN <<SumRange([i \in (lag + 1)..n |-> onsetSeq[i] * onsetSeq[i - lag]],
                lag + 1, n),
       IF n > lag THEN n - lag ELSE 0>>

\* The lag loop of estimateBPMFromEnergy replacing the best lag on
\* correlation >= maxCorrelation.
RECURSIVE LagLoopNonStrict(_, _, _, _, _, _)
LagLoopNonStrict(onsetSeq, rate, hop, lag, maxLag, st) ==
  IF lag > maxLag THEN st
  ELSE LET c == LagCorrelation(onsetSeq, lag)
           better == /\ c[2] > 0
                     /\ c[1] * st.maxCorrelation[2]
                          >= st.maxCorrelation[1] * c[2]
           intervalSeconds == NumDiv(Num(lag * hop), Num(rate))
       IN IF better
            THEN LagLoopNonStrict(onsetSeq, rate, hop, lag + 1, maxLag,
                                  [bestBPM |-> NumDiv(Num(60), intervalSeconds),
                                   maxCorrelation |-> c])
            ELSE LagLoopNonStrict(onsetSeq, rate, hop, lag + 1, maxLag, st)

\* The lag loop of estimateBPMFromEnergy from `lag` on: st is
\* [bestBPM, maxCorrelation], maxCorrelation a fraction <<sum, count>>.
RECURSIVE LagLoop(_, _, _, _, _, _)
LagLoop(onsetSeq, rate, hop, lag, maxLag, st) ==
  IF lag > maxLag THEN st
  ELSE LET c == LagCorrelation(onsetSeq, lag)
           better == /\ c[2] > 0
                     /\ c[1] * st.maxCorrelation[2]
                          > st.maxCorrelation[1] * c[2]
           intervalSeconds == NumDiv(Num(lag * hop), Num(rate))
       IN IF better
            THEN LagLoop(onsetSeq, rate, hop, lag + 1, maxLag,
                         [bestBPM |-> NumDiv(Num(60), intervalSeconds),
                          maxCorrelation |-> c])
            ELSE LagLoop(onsetSeq, rate, hop, lag + 1, maxLag, st)

\* estimateBPMFromEnergy with minBPM as the value when no lag wins.
estimateBPMFromEnergyMinDefault(onsetSeq, rate, hop, lo, hi) ==
  LET maxLag == FloorDiv(60 * rate, lo * hop)
      minLag == FloorDiv(60 * rate, hi * hop)
      st == LagLoop(onsetSeq, rate, hop, minLag, maxLag,
                    [bestBPM |-> Num(lo), maxCorrelation |-> <<0, 1>>])
  IN MathMax(Num(lo), MathMin(Num(hi), st.bestBPM))

\* estimateBPMFromEnergy without the final clamp.
estimateBPMFromEnergyUnclamped(onsetSeq, rate, hop, lo, hi) ==
  LET maxLag == FloorDiv(60 * rate, lo * hop)
      minLag == FloorDiv(60 * rate, hi * hop)
      st == LagLoop(onsetSeq, rate, hop, minLag, maxLag,
                    [bestBPM |-> Num(defaultBPM), maxCorrelation |-> <<0, 1>>])
  IN st.bestBPM

\* estimateBPMFromEnergy
estimateBPMFromEnergy(onsetSeq, rate, hop, lo, hi) ==
  LET maxLag == FloorDiv(60 * rate, lo * hop)
      minLag == FloorDiv(60 * rate, hi * hop)
      st == LagLoop(onsetSeq, rate, hop, minLag, maxLag,
                    [bestBPM |-> Num(defaultBPM), maxCorrelation |-> <<0, 1>>])
  IN MathMax(Num(lo), MathMin(Num(hi), st.bestBPM))

\* findTempo
findTempo(onsetSeq, rate, hop, lo, hi) ==
  LET peaks == pickPeaks(onsetSeq)
      intervals ==
        Array([i \in 1..(Len(peaks) - 1) |->
                 NumDiv(Num((peaks[i + 1] - peaks[i]) * hop), Num(rate))])
  IN IF Len(peaks) < 2
       THEN estimateBPMFromEnergy(onsetSeq, rate, hop, lo, hi)
       ELSE findDominantBPM(createIntervalHistogram(intervals, lo, hi), lo, hi)

\* The segments of findStableTempo without their overlap.
SegmentDisjoint(onsetSeq, i) ==
  LET segmentSize == Len(onsetSeq) \div 4
      start == i * segmentSize
      end == Min(start + segmentSize, Len(onsetSeq))
  IN Slice(onsetSeq, start, end)

\* The i-th (0-based) segment of findStableTempo.
Segment(onsetSeq, i) ==
  LET segmentSize == Len(onsetSeq) \div 4
      start == i * segmentSize
      end == Min(start + segmentSize * 2, Len(onsetSeq))
  IN Slice(onsetSeq, start, end)

\* bpmCandidates of findStableTempo
Candidates(onsetSeq, rate, hop, lo, hi) ==
  Array([i \in 1..4 |->
           findTempo(Segment(onsetSeq, i - 1), rate, hop, lo, hi)])

RECURSIVE CountMap(_)
CountMap(values) ==
  IF values = <<>> THEN <<>>
  ELSE LET n == Len(values)
       IN MapIncrement(CountMap(SubSeq(values, 1, n - 1)), values[n])

\* The mode loop of findStableTempo replacing stableBPM on count >= maxCount.
StableOfLastWins(candidates) ==
  FirstMaxEntryNonStrict(CountMap(candidates), 0, candidates[1])

\* The mode loop of findStableTempo over bpmCandidates.
StableOf(candidates) ==
  FirstMaxEntry(CountMap(candidates), 0, candidates[1])

\* findStableTempo
findStableTempo(onsetSeq, rate, hop, lo, hi) ==
  StableOf(Candidates(onsetSeq, rate, hop, lo, hi))

\* detectBPM
detectBPM(audioData, rate) ==
  LET onsetValues == calculateOnsets(audioData).ret
      filteredValues == medianFilter(onsetValues, medianWindow).ret
  IN MathRound(findStableTempo(filteredValues, rate, hopSize, minBPM, maxBPM))

\* ------------------------------------------------------------------------
\* Inputs
\* ------------------------------------------------------------------------

\* Sample values of the enumerated buffers.
Amps == (-1)..MaxShortAmp

\* Buffer lengths around the multiples of hopSize, up to MaxHops hops.
Lengths == {h * hopSize + r : h \in 0..MaxHops, r \in {0, 1}}
             \cap 0..(MaxHops * hopSize + 1)

\* Every buffer of a length in Lengths with samples in Amps at the hop-aligned
\* positions.
ShortBuffers ==
  UNION {{Buffer(len, hops) : hops \in [1..HopsIn(len) -> Amps]} :
           len \in Lengths}

\* Sample rates: a negative one, zero, and positive ones for which the lag
\* range of estimateBPMFromEnergy is 0..0, 1..4 and 25..86.
SampleRates == {-44100, 0, 1, 2048, 44100}

\* s repeated k times
RECURSIVE Repeat(_, _)
Repeat(s, k) == IF k = 0 THEN <<>> ELSE Repeat(s, k - 1) \o s

\* A click track: after one silent hop, `count` periods of `period` hops,
\* each the motif followed by silence; one more window of silence at the end.
Track(period, count, motif) ==
  LET hops == <<0>> \o Repeat(motif \o [i \in 1..(period - Len(motif)) |-> 0],
                              count)
  IN Buffer((Len(hops) + 1) * hopSize + 1, hops)

\* Pulse shapes: 1 to MaxMotif hops of non-zero samples.
Motifs == UNION {[1..k -> 1..MaxAmp] : k \in 1..MaxMotif}
Impulses == [1..1 -> 1..MaxAmp]

\* Numbers of periods of the click tracks.
Counts == {10, 11}

\* The tempo of a click track of the given period in hops.
TrackBPM(period, rate) == Frac(60 * rate, period * hopSize)

\* <<buffer, sample rate, period>> of the click tracks: at 4096 Hz the periods
\* 3..8 hops are the tempi 160, 120, 96, 80, 68.6 and 60; at 44100 Hz the
\* periods 43 and 52 hops are 120.2 and 99.4 BPM.
TrackInputs ==
  {<<Track(p, c, m), 4096, p>> :
     p \in 3..8, c \in Counts, m \in {x \in Motifs : Len(x) <= 3}}
  \cup {<<Track(p, c, m), 4096, p>> :
          p \in 5..8, c \in Counts, m \in {x \in Motifs : Len(x) > 3}}
  \cup {<<Track(p, c, m), 44100, p>> :
          p \in {43, 52}, c \in Counts, m \in Impulses}

ShortInputs == {<<b, r, 0>> : b \in ShortBuffers, r \in SampleRates}

\* Silence but for the sample a at hop position pos and the sample b at the
\* next one (b = 0: a single impulse); the onset sequence has LoneHops
\* entries.
LoneBuffers ==
  {Buffer((LoneHops + 1) * hopSize + 1,
          [k \in 1..LoneHops |->
             IF k = pos THEN a ELSE IF k = pos + 1 THEN b ELSE 0]) :
     pos \in 1..(LoneHops - 1), a \in 1..MaxAmp, b \in 0..MaxAmp}

LoneInputs == {<<b, r, 0>> : b \in LoneBuffers, r \in SampleRates}

Inputs == ShortInputs \cup LoneInputs \cup TrackInputs

\* ------------------------------------------------------------------------
\* Initial states
\* ------------------------------------------------------------------------

NoBuffer == Buffer(0, <<>>)

\* BatchProcessor as mounted with no files
BatchIdle ==
  /\ results = <<>>
  /\ resultFiles = <<>>
  /\ currentIndex = -1
  /\ isProcessing = FALSE
  /\ isPaused = FALSE
  /\ loops = <<>>
  /\ batchResults = <<>>

\* analyzeBPM(audioUrl) has created its AudioContext and awaits the fetch.
CallStarts(input) ==
  /\ pc = "fetching"
  /\ audioContext = "open"
  /\ given = input[1]
  /\ sampleRate = input[2]
  /\ trackPeriod = input[3]
  /\ channelData = input[1]
  /\ normalizedData = NoBuffer
  /\ sameArray = FALSE
  /\ onsets = <<>>
  /\ filteredOnsets = <<>>
  /\ bpmCandidates = <<>>
  /\ stableBPM = <<>>
  /\ result = <<>>
  /\ history = <<>>

\* findTempo is not followed step by step.
TempoIdle ==
  /\ peakList = <<>>
  /\ intervalList = <<>>
  /\ intervalHistogram = <<>>
  /\ dominantBPM = <<>>
  /\ bestBPM = <<>>
  /\ maxCorrelation = <<>>

\* A File: its name as a sequence of characters, its size in bytes and, for
\* its content, the BPM that analyzeBPM resolves with for it.  NoFile stands
\* for null.
NoFile == [name |-> <<>>, size |-> 0, tempo |-> 0]

\* FileUpload before any drop.
NoUpload ==
  /\ dropped = <<>>
  /\ selected = [prop |-> "none", files |-> <<>>]

\* The page is not followed: Index as mounted.
UiIdle ==
  /\ mode = "single"
  /\ audioFile = NoFile
  /\ audioUrl = NoFile
  /\ indexBpm = 0
  /\ isAnalyzing = FALSE
  /\ playerIsAnalyzing = FALSE
  /\ analyses = <<>>
  /\ batchFiles = <<>>
  /\ NoUpload

Init ==
  (\E input \in Inputs : CallStarts(input)) /\ BatchIdle /\ TempoIdle /\ UiIdle

\* ------------------------------------------------------------------------
\* analyzeBPM, step by step
\* ------------------------------------------------------------------------

\* fetch, arrayBuffer and decodeAudioData succeed; getChannelData(0)
Decode ==
  /\ pc = "fetching"
  /\ pc' = "decoded"
  /\ UNCHANGED <<audioContext, sampleRate, given, trackPeriod, channelData,
                 normalizedData, sameArray, onsets, filteredOnsets,
                 bpmCandidates, stableBPM, result, history, batchVars,
                 tempoVars, uiVars>>

\* fetch or decodeAudioData throws: the catch block rethrows
DecodeFails ==
  /\ pc = "fetching"
  /\ pc' = "rejected"
  /\ UNCHANGED <<audioContext, sampleRate, given, trackPeriod, channelData,
                 normalizedData, sameArray, onsets, filteredOnsets,
                 bpmCandidates, stableBPM, result, history, batchVars,
                 tempoVars, uiVars>>

\* const normalizedData = normalizeAudio(channelData)
Normalize ==
  /\ pc = "decoded"
  /\ LET r == normalizeAudio(channelData)
     IN /\ normalizedData' = r.ret
        /\ channelData' = r.audioData
        /\ sameArray' = r.same
  /\ pc' = "normalized"
  /\ UNCHANGED <<audioContext, sampleRate, given, trackPeriod, onsets,
                 filteredOnsets, bpmCandidates, stableBPM, result, history,
                 batchVars, tempoVars, uiVars>>

\* const onsets = calculateOnsets(audioData, sampleRate, windowSize, hopSize)
CalculateOnsets ==
  /\ pc = "normalized"
  /\ LET r == calculateOnsets(normalizedData)
     IN /\ onsets' = r.ret
        /\ normalizedData' = r.audioData
        /\ channelData' = IF sameArray THEN r.audioData ELSE channelData
  /\ pc' = "onsets"
  /\ UNCHANGED <<audioContext, sampleRate, given, trackPeriod, sameArray,
                 filteredOnsets, bpmCandidates, stableBPM, result, history,
                 batchVars, tempoVars, uiVars>>

\* medianFilter pushing onto an array that outlives the call.
MedianFilterAccumulating ==
  /\ pc = "onsets"
  /\ LET r == medianFilter(onsets, medianWindow)
     IN /\ filteredOnsets' = filteredOnsets \o r.ret
        /\ onsets' = r.data
  /\ pc' = "filtered"
  /\ UNCHANGED <<audioContext, sampleRate, given, trackPeriod, channelData,
                 normalizedData, sameArray, bpmCandidates, stableBPM, result,
                 history, batchVars, tempoVars, uiVars>>

\* const filteredOnsets = medianFilter(onsets, 3)
MedianFilter ==
  /\ pc = "onsets"
  /\ LET r == medianFilter(onsets, medianWindow)
     IN /\ filteredOnsets' = r.ret
        /\ onsets' = r.data
  /\ pc' = "filtered"
  /\ UNCHANGED <<audioContext, sampleRate, given, trackPeriod, channelData,
                 normalizedData, sameArray, bpmCandidates, stableBPM, result,
                 history, batchVars, tempoVars, uiVars>>

\* const bpm = findStableTempo(filteredOnsets, sampleRate, hopSize, minBPM,
\* maxBPM)
FindStableTempo ==
  /\ pc = "filtered"
  /\ bpmCandidates' =
       Candidates(filteredOnsets, sampleRate, hopSize, minBPM, maxBPM)
  /\ stableBPM' = findStableTempo(filteredOnsets, sampleRate, hopSize, minBPM,
                            maxBPM)
  /\ pc' = "tempo"
  /\ UNCHANGED <<audioContext, sampleRate, given, trackPeriod, channelData,
                 normalizedData, sameArray, onsets, filteredOnsets, result,
                 history, batchVars, tempoVars, uiVars>>

\* detectBPM returns Math.round(bpm); analyzeBPM awaits audioContext.close()
\* and returns it
Return ==
  /\ pc = "tempo"
  /\ result' = MathRound(stableBPM)
  /\ history' = Append(history, <<given, sampleRate, MathRound(stableBPM)>>)
  /\ audioContext' = "closed"
  /\ pc' = "resolved"
  /\ UNCHANGED <<sampleRate, given, trackPeriod, channelData, normalizedData,
                 sameArray, onsets, filteredOnsets, bpmCandidates, stableBPM,
                 batchVars, tempoVars, uiVars>>

Next ==
  \/ Decode
  \/ DecodeFails
  \/ Normalize
  \/ CalculateOnsets
  \/ MedianFilter
  \/ FindStableTempo
  \/ Return

Spec == Init /\ [][Next]_vars

\* ------------------------------------------------------------------------
\* analyzeBPM called again and again
\* ------------------------------------------------------------------------

\* The inputs of the repeated calls: click tracks of 3 and 5 hops per beat with
\* two pulse shapes at 4096 Hz, and two silent buffers.
CallInputs ==
  {<<Track(p, 10, m), 4096, p>> : p \in {3, 5}, m \in {<<1>>, <<1, 2>>}}
  \cup {<<Buffer(2 * hopSize + 1, <<0, 0>>), 44100, 0>>,
        <<NoBuffer, 1, 0>>}

InitCalls ==
  /\ \E input \in CallInputs : CallStarts(input)
  /\ BatchIdle
  /\ TempoIdle
  /\ UiIdle

\* A caller (AudioPlayer.analyzeAudio, BatchProcessor.processFile) calls
\* analyzeBPM again after the previous call has settled.  The call gets a new
\* AudioContext; what the variables of the previous call held stays in the
\* state until the new call assigns them.
CallAgain ==
  /\ pc \in {"resolved", "rejected"}
  /\ Len(history) < MaxCalls
  /\ \E input \in CallInputs :
       /\ given' = input[1]
       /\ sampleRate' = input[2]
       /\ trackPeriod' = input[3]
       /\ channelData' = input[1]
  /\ audioContext' = "open"
  /\ pc' = "fetching"
  /\ UNCHANGED <<normalizedData, sameArray, onsets, filteredOnsets,
                 bpmCandidates, stableBPM, result, history, batchVars,
                 tempoVars, uiVars>>

NextCalls ==
  \/ Decode
  \/ DecodeFails
  \/ Normalize
  \/ CalculateOnsets
  \/ MedianFilter
  \/ FindStableTempo
  \/ Return
  \/ CallAgain

SpecCalls == InitCalls /\ [][NextCalls]_vars

\* ------------------------------------------------------------------------
\* FileUpload
\* ------------------------------------------------------------------------

\* The characters that String.prototype.toLowerCase changes, and what it
\* makes of them.
UpperCase ==
  <<"A", "B", "C", "D", "E", "F", "G", "H", "I", "J", "K", "L", "M",
    "N", "O", "P", "Q", "R", "S", "T", "U", "V", "W", "X", "Y", "Z">>
LowerCase ==
  <<"a", "b", "c", "d", "e", "f", "g", "h", "i", "j", "k", "l", "m",
    "n", "o", "p", "q", "r", "s", "t", "u", "v", "w", "x", "y", "z">>

\* String.prototype.toLowerCase
toLowerCase(str) ==
  [i \in 1..Len(str) |->
     IF \E k \in 1..Len(UpperCase) : UpperCase[k] = str[i]
       THEN LowerCase[CHOOSE k \in 1..Len(UpperCase) : UpperCase[k] = str[i]]
       ELSE str[i]]

\* str.split('.').pop(): what follows the last dot, the whole string when it
\* has no dot.
LastSegment(str) ==
  LET dots == {i \in 1..Len(str) : str[i] = "."}
      last == CHOOSE i \in dots : \A j \in dots : j <= i
  IN IF dots = {} THEN str ELSE SubSeq(str, last + 1, Len(str))

\* The acceptedTypes that Index passes to FileUpload.
acceptedTypes ==
  << <<".", "m", "p", "3">>, <<".", "w", "a", "v">>, <<".", "m", "4", "a">>,
     <<".", "a", "a", "c">>, <<".", "o", "g", "g">>, <<".", "m", "p", "4">>,
     <<".", "w", "e", "b", "m">>, <<".", "m", "o", "v">>,
     <<".", "a", "v", "i">> >>

\* file.size > 100 * 1024 * 1024
maxFileSize == 100 * 1024 * 1024

\* validateFile
validateFile(file) ==
  LET extension == <<".">> \o toLowerCase(LastSegment(file.name))
  IN \E k \in 1..Len(acceptedTypes) : acceptedTypes[k] = extension

\* What handleDrop and handleFileInput pass on for the files fs: the prop
\* they call, "none" when they call neither, and the files they pass.
Passed(fs, allowMultiple) ==
  LET NotOversized(file) == file.size <= maxFileSize
      validFiles == SelectSeq(fs, validateFile)
      processableFiles == SelectSeq(validFiles, NotOversized)
      none == [prop |-> "none", files |-> <<>>]
  IN IF Len(fs) = 0 THEN none
     ELSE IF allowMultiple
       THEN IF Len(processableFiles) > 0
              THEN [prop |-> "onFilesSelect", files |-> processableFiles]
              ELSE none
     ELSE IF ~validateFile(fs[1]) THEN none
     ELSE IF fs[1].size > maxFileSize THEN none
     ELSE [prop |-> "onFileSelect", files |-> <<fs[1]>>]

\* ------------------------------------------------------------------------
\* BatchProcessor
\* ------------------------------------------------------------------------
\* The component's state is results, currentIndex, isProcessing and isPaused;
\* batchResults is the parent's state, set through onResults.  A state update
\* is committed, and the component rendered again, before the next click or
\* completion is handled.  A call of processBatch reads the state through the
\* closure of the render in which the clicked button was created, for as long
\* as the call runs: loops holds, for every call that awaits processFile, its
\* loop index i and that closure.

\* The outcomes of analyzeBPM for a file of a batch.
BatchBPMs == {defaultBPM, maxBPM}

\* A BatchResult without its file: bpm 0 and error "" are the absent fields.
PendingResult == [status |-> "pending", bpm |-> 0, error |-> ""]

\* files.map(file => ({ file, status: 'pending' }))
PendingResults(n) == [i \in 1..n |-> PendingResult]

\* completedCount + errorCount
SettledCount(rs) ==
  Cardinality({i \in 1..Len(rs) : rs[i].status \in {"completed", "error"}})

\* No call of analyzeBPM is followed while the batch is modelled.
NoCall ==
  /\ pc = "idle"
  /\ audioContext = "closed"
  /\ given = NoBuffer
  /\ sampleRate = 44100
  /\ trackPeriod = 0
  /\ channelData = NoBuffer
  /\ normalizedData = NoBuffer
  /\ sameArray = FALSE
  /\ onsets = <<>>
  /\ filteredOnsets = <<>>
  /\ bpmCandidates = <<>>
  /\ stableBPM = <<>>
  /\ result = <<>>
  /\ history = <<>>

\* The files "a.mp3", "b.mp3", ... of a batch.
BatchFile(i) ==
  [name |-> <<LowerCase[i], ".", "m", "p", "3">>, size |-> i * 1024,
   tempo |-> defaultBPM]
BatchFileList(n) == [i \in 1..n |-> BatchFile(i)]

\* Index in batch mode after the files fs were selected, and BatchProcessor
\* as it is mounted for them.
BatchMounted(fs) ==
  /\ mode = "batch"
  /\ audioFile = NoFile
  /\ audioUrl = NoFile
  /\ indexBpm = 0
  /\ isAnalyzing = FALSE
  /\ playerIsAnalyzing = FALSE
  /\ analyses = <<>>
  /\ batchFiles = fs
  /\ NoUpload
  /\ results = PendingResults(Len(fs))
  /\ resultFiles = fs

\* BatchProcessor mounted with 1..MaxFiles files.
InitBatch ==
  /\ NoCall
  /\ TempoIdle
  /\ \E n \in 1..MaxFiles : BatchMounted(BatchFileList(n))
  /\ currentIndex = -1
  /\ isProcessing = FALSE
  /\ isPaused = FALSE
  /\ loops = <<>>
  /\ batchResults = <<>>

\* setResults(prev => prev.map((r, idx) =>
\*   idx === i ? { ...r, status: 'processing' } : r))
MarkProcessing(prev, i) ==
  IF i + 1 \in 1..Len(prev)
    THEN [prev EXCEPT ![i + 1] = [prev[i + 1] EXCEPT !.status = "processing"]]
    ELSE prev

\* What processFile(result, index) resolves to: outcome is the BPM analyzeBPM
\* resolved with, or 0 when it threw.
processFile(res, outcome) ==
  IF outcome # 0
    THEN [res EXCEPT !.bpm = outcome, !.status = "completed"]
    ELSE [res EXCEPT !.status = "error", !.error = "Analysis failed"]

\* s without its k-th element
RemoveAt(s, k) == SubSeq(s, 1, k - 1) \o SubSeq(s, k + 1, Len(s))

\* The main button is clicked while it reads Start Analysis or Resume:
\* processBatch runs up to its first await.
ClickStart ==
  /\ ~isProcessing
  /\ SettledCount(results) # Len(batchFiles)
  /\ Len(loops) < MaxLoops
  /\ LET closure == [isProcessing |-> isProcessing, isPaused |-> isPaused,
                     currentIndex |-> currentIndex, results |-> results,
                     resultFiles |-> resultFiles]
         startIndex == closure.currentIndex + 1
     IN IF closure.isProcessing /\ ~closure.isPaused
          THEN UNCHANGED batchVars
          ELSE /\ isPaused' = FALSE
               /\ batchResults' = batchResults
               /\ resultFiles' = resultFiles
               /\ IF startIndex < Len(closure.results) /\ ~closure.isPaused
                    THEN /\ isProcessing' = TRUE
                         /\ currentIndex' = startIndex
                         /\ results' = MarkProcessing(results, startIndex)
                         /\ loops' = Append(loops, [i |-> startIndex,
                                                    closure |-> closure])
                    ELSE /\ isProcessing' = closure.isPaused
                         /\ currentIndex' =
                              IF closure.isPaused THEN currentIndex ELSE -1
                         /\ UNCHANGED <<results, loops>>
  /\ UNCHANGED <<callVars, tempoVars, uiVars>>

\* The main button is clicked while it reads Pause.
ClickPause ==
  /\ isProcessing
  /\ SettledCount(results) # Len(batchFiles)
  /\ isPaused' = TRUE
  /\ UNCHANGED <<results, resultFiles, currentIndex, isProcessing, loops,
                 batchResults, callVars, tempoVars, uiVars>>

\* The reset button is clicked.
ClickReset ==
  /\ ~(isProcessing /\ ~isPaused)
  /\ isProcessing' = FALSE
  /\ isPaused' = FALSE
  /\ currentIndex' = -1
  /\ results' = PendingResults(Len(batchFiles))
  /\ resultFiles' = batchFiles
  /\ batchResults' = <<>>
  /\ UNCHANGED <<loops, callVars, tempoVars, uiVars>>

\* Settle leaving the loop at the first file whose analysis fails.
SettleStopsAtError(k, outcome) ==
  LET loop == loops[k]
      closure == loop.closure
      processedResult == processFile(closure.results[loop.i + 1], outcome)
      newResults == IF loop.i + 1 \in 1..Len(results)
                      THEN [results EXCEPT ![loop.i + 1] = processedResult]
                      ELSE results
      i == loop.i + 1
  IN /\ batchResults' = newResults
     /\ resultFiles' =
          IF loop.i + 1 \in 1..Len(resultFiles)
            THEN [resultFiles EXCEPT
                    ![loop.i + 1] = closure.resultFiles[loop.i + 1]]
            ELSE resultFiles
     /\ isPaused' = isPaused
     /\ IF i < Len(closure.results) /\ outcome # 0
          THEN /\ currentIndex' = i
               /\ results' = MarkProcessing(newResults, i)
               /\ loops' = [loops EXCEPT ![k] = [loop EXCEPT !.i = i]]
               /\ isProcessing' = isProcessing
          ELSE /\ results' = newResults
               /\ loops' = RemoveAt(loops, k)
               /\ isProcessing' = FALSE
               /\ currentIndex' = -1
     /\ UNCHANGED <<callVars, tempoVars, uiVars>>

\* The processFile awaited by the k-th running call settles with the given
\* outcome: the call stores the result, hands the list to onResults and goes
\* on to the next iteration or leaves the loop.
Settle(k, outcome) ==
  LET loop == loops[k]
      closure == loop.closure
      processedResult == processFile(closure.results[loop.i + 1], outcome)
      newResults == IF loop.i + 1 \in 1..Len(results)
                      THEN [results EXCEPT ![loop.i + 1] = processedResult]
                      ELSE results
      i == loop.i + 1
  IN /\ batchResults' = newResults
     /\ resultFiles' =
          IF loop.i + 1 \in 1..Len(resultFiles)
            THEN [resultFiles EXCEPT
                    ![loop.i + 1] = closure.resultFiles[loop.i + 1]]
            ELSE resultFiles
     /\ isPaused' = isPaused
     /\ IF i < Len(closure.results) /\ ~closure.isPaused
          THEN /\ currentIndex' = i
               /\ results' = MarkProcessing(newResults, i)
               /\ loops' = [loops EXCEPT ![k] = [loop EXCEPT !.i = i]]
               /\ isProcessing' = isProcessing
          ELSE /\ results' = newResults
               /\ loops' = RemoveAt(loops, k)
               /\ isProcessing' = IF closure.isPaused THEN isProcessing
                                  ELSE FALSE
               /\ currentIndex' = IF closure.isPaused THEN currentIndex
                                  ELSE -1
     /\ UNCHANGED <<callVars, tempoVars, uiVars>>

\* analyzeBPM resolves for the file a running call awaits
AnalysisResolves ==
  \E k \in 1..Len(loops), b \in BatchBPMs : Settle(k, b)

\* analyzeBPM throws for the file a running call awaits
AnalysisRejects ==
  \E k \in 1..Len(loops) : Settle(k, 0)

NextBatch ==
  \/ ClickStart
  \/ ClickPause
  \/ ClickReset
  \/ AnalysisResolves
  \/ AnalysisRejects

SpecBatch == InitBatch /\ [][NextBatch]_vars

\* ------------------------------------------------------------------------
\* A batch run without interruption
\* ------------------------------------------------------------------------

\* BatchProcessor mounted with 1..MaxRunFiles files.
InitRun ==
  /\ NoCall
  /\ TempoIdle
  /\ \E n \in 1..MaxRunFiles : BatchMounted(BatchFileList(n))
  /\ currentIndex = -1
  /\ isProcessing = FALSE
  /\ isPaused = FALSE
  /\ loops = <<>>
  /\ batchResults = <<>>

\* The user clicks Start and then neither Pause nor Reset.
NextRun ==
  \/ ClickStart
  \/ AnalysisResolves
  \/ AnalysisRejects

\* The promise of analyzeBPM that a call of processBatch awaits settles:
\* processFile catches a rejection and resolves either way.
SpecRun ==
  InitRun /\ [][NextRun]_vars /\ WF_vars(AnalysisResolves \/ AnalysisRejects)

\* ------------------------------------------------------------------------
\* findTempo, step by step
\* ------------------------------------------------------------------------

\* Every onset sequence of up to MaxOnsetLen values in 0..MaxOnset.
ShortOnsets == UNION {[1..n -> 0..MaxOnset] : n \in 0..MaxOnsetLen}

\* The onset sequences of SparseLen values that are 1 at up to MaxPulses
\* places other than the first and the last, and 0 elsewhere.
SparseOnsets ==
  {[i \in 1..SparseLen |-> IF i \in S THEN 1 ELSE 0] :
     S \in {T \in SUBSET (2..(SparseLen - 1)) : Cardinality(T) <= MaxPulses}}

\* Sample rates at which a peak distance of d hops is the tempo 240 / d,
\* 480 / d and about 5168 / d BPM.
TempoRates == {2048, 4096, 44100}

\* findTempo(onsets, sampleRate, hopSize, minBPM, maxBPM) is entered.
TempoStarts(onsetSeq, rate) ==
  /\ pc = "findTempo"
  /\ audioContext = "open"
  /\ given = NoBuffer
  /\ sampleRate = rate
  /\ trackPeriod = 0
  /\ channelData = NoBuffer
  /\ normalizedData = NoBuffer
  /\ sameArray = FALSE
  /\ onsets = onsetSeq
  /\ filteredOnsets = onsetSeq
  /\ bpmCandidates = <<>>
  /\ stableBPM = <<>>
  /\ result = <<>>
  /\ history = <<>>

InitTempo ==
  /\ \E onsetSeq \in ShortOnsets \cup SparseOnsets, rate \in TempoRates :
       TempoStarts(onsetSeq, rate)
  /\ BatchIdle
  /\ TempoIdle
  /\ UiIdle

\* const peaks = pickPeaks(onsets)
PickPeaks ==
  /\ pc = "findTempo"
  /\ peakList' = pickPeaks(onsets)
  /\ pc' = IF Len(pickPeaks(onsets)) < 2 THEN "fallback" ELSE "peaks"
  /\ UNCHANGED <<audioContext, sampleRate, given, trackPeriod, channelData,
                 normalizedData, sameArray, onsets, filteredOnsets,
                 bpmCandidates, stableBPM, result, history, batchVars,
                 intervalList, intervalHistogram, dominantBPM, bestBPM,
                 maxCorrelation, uiVars>>

\* return estimateBPMFromEnergy(onsets, sampleRate, hopSize, minBPM, maxBPM);
\* findStableTempo pushes the value on bpmCandidates.  bestBPM and
\* maxCorrelation are the function's locals as the lag loop leaves them.
EstimateBPMFromEnergy ==
  /\ pc = "fallback"
  /\ LET st == LagLoop(onsets, sampleRate, hopSize,
                       FloorDiv(60 * sampleRate, maxBPM * hopSize),
                       FloorDiv(60 * sampleRate, minBPM * hopSize),
                       [bestBPM |-> Num(defaultBPM),
                        maxCorrelation |-> <<0, 1>>])
     IN /\ bestBPM' = st.bestBPM
        /\ maxCorrelation' = st.maxCorrelation
  /\ bpmCandidates' =
       Append(bpmCandidates,
              estimateBPMFromEnergy(onsets, sampleRate, hopSize, minBPM,
                                    maxBPM))
  /\ pc' = "returned"
  /\ UNCHANGED <<audioContext, sampleRate, given, trackPeriod, channelData,
                 normalizedData, sameArray, onsets, filteredOnsets, stableBPM,
                 result, history, batchVars, peakList, intervalList,
                 intervalHistogram, dominantBPM, uiVars>>

\* The intervals between consecutive peaks, in seconds.
PeakIntervals(peakSeq, rate, hop) ==
  Array([i \in 1..(Len(peakSeq) - 1) |->
           NumDiv(Num((peakSeq[i + 1] - peakSeq[i]) * hop), Num(rate))])

\* for (let i = 1; i < peaks.length; i++) intervals.push(intervalSeconds)
Intervals ==
  /\ pc = "peaks"
  /\ intervalList' = PeakIntervals(peakList, sampleRate, hopSize)
  /\ pc' = "intervals"
  /\ UNCHANGED <<audioContext, sampleRate, given, trackPeriod, channelData,
                 normalizedData, sameArray, onsets, filteredOnsets,
                 bpmCandidates, stableBPM, result, history, batchVars,
                 peakList, intervalHistogram, dominantBPM, bestBPM,
                 maxCorrelation, uiVars>>

\* const histogram = createIntervalHistogram(intervals, minBPM, maxBPM)
CreateIntervalHistogram ==
  /\ pc = "intervals"
  /\ intervalHistogram' = createIntervalHistogram(intervalList, minBPM, maxBPM)
  /\ pc' = "histogram"
  /\ UNCHANGED <<audioContext, sampleRate, given, trackPeriod, channelData,
                 normalizedData, sameArray, onsets, filteredOnsets,
                 bpmCandidates, stableBPM, result, history, batchVars,
                 peakList, intervalList, dominantBPM, bestBPM,
                 maxCorrelation, uiVars>>

\* const dominantBPM = findDominantBPM(histogram, minBPM, maxBPM);
\* return dominantBPM; findStableTempo pushes the value on bpmCandidates
FindDominantBPM ==
  /\ pc = "histogram"
  /\ dominantBPM' = findDominantBPM(intervalHistogram, minBPM, maxBPM)
  /\ bpmCandidates' =
       Append(bpmCandidates,
              findDominantBPM(intervalHistogram, minBPM, maxBPM))
  /\ pc' = "returned"
  /\ UNCHANGED <<audioContext, sampleRate, given, trackPeriod, channelData,
                 normalizedData, sameArray, onsets, filteredOnsets, stableBPM,
                 result, history, batchVars, peakList, intervalList,
                 intervalHistogram, bestBPM, maxCorrelation, uiVars>>

NextTempo ==
  \/ PickPeaks
  \/ EstimateBPMFromEnergy
  \/ Intervals
  \/ CreateIntervalHistogram
  \/ FindDominantBPM

SpecTempo == InitTempo /\ [][NextTempo]_vars

\* ------------------------------------------------------------------------
\* Index with FileUpload and AudioPlayer
\* ------------------------------------------------------------------------
\* audioUrl holds the file that the object URL was created for.  The
\* AudioPlayer is mounted while mode is 'single' and audioUrl is not null;
\* a call of analyzeAudio goes on after its player is unmounted, and then
\* its setIsAnalyzing has no effect: analyses holds, for every call that
\* awaits analyzeBPM, the audioUrl it was started for and whether its player
\* is still the mounted one (live).  The BatchProcessor is mounted while
\* mode is 'batch' and batchFiles is not empty.

\* The files "a.mp3", "b.mp3", ... of the single-file page, each with a tempo
\* of its own.
PageFile(i) == [BatchFile(i) EXCEPT !.tempo = minBPM + i]

\* A file that FileUpload rejects: "a.txt".
TextFile ==
  [name |-> <<"a", ".", "t", "x", "t">>, size |-> 1024, tempo |-> 0]

\* What the user drops on the page: one of the files, all of them at once,
\* or the text file.
PageDrops ==
  {<<PageFile(i)>> : i \in 1..MaxPageFiles}
    \cup {[i \in 1..MaxPageFiles |-> PageFile(i)], <<TextFile>>}

\* The calls of analyzeAudio after their AudioPlayer was unmounted.
Unmounted(calls) == [k \in 1..Len(calls) |-> [calls[k] EXCEPT !.live = FALSE]]

\* handleDrop and handleFileInput for the files fs, with handleFileSelect
\* and handleFilesSelect of Index, to which the props of FileUpload are
\* bound in single and in batch mode.  A BatchProcessor that is mounted
\* keeps its state when the files prop changes; one that is mounted by the
\* selection starts from its initial state.
FilesChosen(fs) ==
  LET passed == Passed(fs, mode = "batch")
  IN /\ selected' = passed
     /\ IF passed.prop = "onFileSelect"
          THEN /\ audioFile' = passed.files[1]
               /\ audioUrl' = passed.files[1]
               /\ indexBpm' = 0
               /\ UNCHANGED <<batchFiles, batchVars>>
          ELSE IF passed.prop = "onFilesSelect"
            THEN /\ batchFiles' = passed.files
                 /\ batchResults' = <<>>
                 /\ IF batchFiles = <<>>
                      THEN /\ results' = PendingResults(Len(passed.files))
                           /\ resultFiles' = passed.files
                           /\ currentIndex' = -1
                           /\ isProcessing' = FALSE
                           /\ isPaused' = FALSE
                      ELSE UNCHANGED <<results, resultFiles, currentIndex,
                                       isProcessing, isPaused>>
                 /\ UNCHANGED <<loops, audioFile, audioUrl, indexBpm>>
            ELSE UNCHANGED <<audioFile, audioUrl, indexBpm, batchFiles,
                             batchVars>>
     /\ UNCHANGED <<mode, isAnalyzing, playerIsAnalyzing, analyses, callVars,
                    tempoVars>>

\* Files are dropped on the upload area.
HandleDrop ==
  /\ \E fs \in PageDrops : FilesChosen(fs)
  /\ UNCHANGED dropped

\* The files held in dropped are chosen in the file input.
HandleFileInput ==
  /\ dropped # <<>>
  /\ FilesChosen(dropped)
  /\ dropped' = <<>>

\* One of the two mode buttons is clicked: handleModeSwitch(newMode).
HandleModeSwitch ==
  /\ \E newMode \in {"single", "batch"} :
       /\ mode' = newMode
       /\ IF newMode = "single"
            THEN /\ batchFiles' = <<>>
                 /\ batchResults' = <<>>
                 /\ results' = <<>>
                 /\ resultFiles' = <<>>
                 /\ currentIndex' = -1
                 /\ isProcessing' = FALSE
                 /\ isPaused' = FALSE
                 /\ UNCHANGED <<loops, audioFile, audioUrl, indexBpm,
                                playerIsAnalyzing, analyses>>
            ELSE /\ audioFile' = NoFile
                 /\ audioUrl' = NoFile
                 /\ indexBpm' = 0
                 /\ playerIsAnalyzing' = FALSE
                 /\ analyses' = Unmounted(analyses)
                 /\ UNCHANGED <<batchFiles, batchVars>>
  /\ UNCHANGED <<isAnalyzing, dropped, selected, callVars, tempoVars>>

\* Analyze BPM is clicked: analyzeAudio runs up to its await.
AnalyzeAudio ==
  /\ mode = "single"
  /\ audioUrl # NoFile
  /\ ~playerIsAnalyzing
  /\ Len(analyses) < MaxAnalyses
  /\ playerIsAnalyzing' = TRUE
  /\ isAnalyzing' = TRUE
  /\ analyses' = Append(analyses, [audioUrl |-> audioUrl, live |-> TRUE])
  /\ UNCHANGED <<mode, audioFile, audioUrl, indexBpm, batchFiles, dropped,
                 selected, batchVars, callVars, tempoVars>>

\* analyzeBPM resolves for a call of analyzeAudio: onBpmDetected(bpm), then
\* the finally block.
AnalyzeAudioResolves ==
  /\ \E k \in 1..Len(analyses) :
       /\ indexBpm' = analyses[k].audioUrl.tempo
       /\ isAnalyzing' = FALSE
       /\ playerIsAnalyzing' =
            IF analyses[k].live THEN FALSE ELSE playerIsAnalyzing
       /\ analyses' = RemoveAt(analyses, k)
  /\ UNCHANGED <<mode, audioFile, audioUrl, batchFiles, dropped, selected,
                 batchVars, callVars, tempoVars>>

\* analyzeBPM throws for a call of analyzeAudio: the catch block shows a
\* toast, then the finally block.
AnalyzeAudioRejects ==
  /\ \E k \in 1..Len(analyses) :
       /\ playerIsAnalyzing' =
            IF analyses[k].live THEN FALSE ELSE playerIsAnalyzing
       /\ analyses' = RemoveAt(analyses, k)
  /\ UNCHANGED <<mode, audioFile, audioUrl, indexBpm, isAnalyzing, batchFiles,
                 dropped, selected, batchVars, callVars, tempoVars>>

\* Index as mounted, in single mode.
InitPage ==
  /\ NoCall
  /\ TempoIdle
  /\ BatchIdle
  /\ UiIdle

NextPage ==
  \/ HandleDrop
  \/ HandleModeSwitch
  \/ AnalyzeAudio
  \/ AnalyzeAudioResolves
  \/ AnalyzeAudioRejects

\* The promise of analyzeBPM that a call of analyzeAudio awaits settles.
SpecPage ==
  /\ InitPage
  /\ [][NextPage]_vars
  /\ WF_vars(AnalyzeAudioResolves \/ AnalyzeAudioRejects)

\* ------------------------------------------------------------------------
\* FileUpload on enumerated files
\* ------------------------------------------------------------------------

\* The characters of the enumerated file names.
NameChars == {".", "m", "p", "3", "M"}

\* Every name of up to MaxNameLen of these characters.
Names == UNION {[1..n -> NameChars] : n \in 0..MaxNameLen}

\* File sizes: one byte, 100 MB and one byte more.
UploadSizes == {1, maxFileSize, maxFileSize + 1}

\* The files of a multiple selection: "x.mp3", "x.MP3", "mp3" and "x.x",
\* each of one byte and of more than 100 MB.
PoolFiles ==
  {[name |-> n, size |-> sz, tempo |-> defaultBPM] :
     n \in {<<"x", ".", "m", "p", "3">>, <<"x", ".", "M", "P", "3">>,
            <<"m", "p", "3">>, <<"x", ".", "x">>},
     sz \in {1, maxFileSize + 1}}

\* What the user chooses in the file input: any one file, or up to
\* MaxDropped files of the pool.
UploadDrops ==
  {<<[name |-> n, size |-> sz, tempo |-> defaultBPM]>> :
     n \in Names, sz \in UploadSizes}
    \cup UNION {[1..k -> PoolFiles] : k \in 1..MaxDropped}

\* Index as mounted, in single mode or switched to batch mode, and files
\* chosen in the file input.
InitUpload ==
  /\ NoCall
  /\ TempoIdle
  /\ BatchIdle
  /\ mode \in {"single", "batch"}
  /\ audioFile = NoFile
  /\ audioUrl = NoFile
  /\ indexBpm = 0
  /\ isAnalyzing = FALSE
  /\ playerIsAnalyzing = FALSE
  /\ analyses = <<>>
  /\ batchFiles = <<>>
  /\ dropped \in UploadDrops
  /\ selected = [prop |-> "none", files |-> <<>>]

NextUpload == HandleFileInput

SpecUpload == InitUpload /\ [][NextUpload]_vars

\* ------------------------------------------------------------------------
\* Properties of a call of analyzeBPM
\* ------------------------------------------------------------------------

\* The path findTempo takes for a segment.
PathOf(segment) ==
  IF Len(pickPeaks(segment)) < 2 THEN "fallback" ELSE "histogram"

\* The paths the four calls of findTempo took.
SegmentPaths == [i \in 1..4 |-> PathOf(Segment(filteredOnsets, i - 1))]

InRange(x) ==
  IsFinite(x) /\ NumLeq(Num(minBPM), x) /\ NumLeq(x, Num(maxBPM))

\* C1: for every buffer and every positive sample rate the BPM that
\* analyzeBPM resolves with is a finite number in [60, 200], and so is every
\* segment estimate, whether the histogram or the autocorrelation produced it.
C1_BpmInRange ==
  (sampleRate > 0 /\ pc \in {"tempo", "resolved"}) =>
    /\ \A i \in 1..4 : InRange(bpmCandidates[i])
    /\ InRange(stableBPM)
    /\ pc = "resolved" => InRange(result)

\* A resolved call in which a segment took the histogram path and another
\* the fallback, with a result other than the default.
C1_Witness ==
  /\ pc = "resolved"
  /\ sampleRate > 0
  /\ \E i, j \in 1..4 :
       SegmentPaths[i] = "histogram" /\ SegmentPaths[j] = "fallback"
  /\ result # Num(defaultBPM)

\* C2: a buffer shorter than one window never makes analyzeBPM resolve with
\* a BPM.
C2_ShortBufferNeverResolves ==
  ~(pc = "resolved" /\ given.length < windowSize)

\* A click track of the given period in hops: equal impulses exactly every
\* `p` hops, silence elsewhere.
IsClickTrack(buffer, p) ==
  /\ p > 0
  /\ \A k \in 1..Len(buffer.hops) :
       IF (k - 2) % p = 0 THEN buffer.hops[k] = buffer.hops[2]
                          ELSE buffer.hops[k] = 0
  /\ buffer.hops[2] # 0

\* |x - target| <= 2 for an integer-valued x
Within2(x, target) ==
  /\ IsFinite(x)
  /\ Abs(x[1] * target[2] - target[1] * x[2]) <= 2 * target[2] * x[2]

\* C3: a click track of at least 10 periods whose tempo b lies in [60, 200]
\* is estimated on the histogram path and within 2 BPM of b.
C3_ClickTrackRecovered ==
  (/\ pc = "resolved"
   /\ IsClickTrack(given, trackPeriod)
   /\ InRange(TrackBPM(trackPeriod, sampleRate))) =>
    /\ \A i \in 1..4 : SegmentPaths[i] = "histogram"
    /\ Within2(result, TrackBPM(trackPeriod, sampleRate))

\* The onset sequence of a silent buffer or of a buffer with one impulse: an
\* impulse lies in at most two consecutive analysis windows.
Degenerate(onsetSeq) ==
  \E j \in 0..Len(onsetSeq) :
    \A i \in 1..Len(onsetSeq) : onsetSeq[i] # 0 => i \in {j, j + 1}

\* C4: a buffer of at least one window that is silent or holds one impulse
\* takes the autocorrelation fallback in every segment and resolves with a
\* BPM in [60, 200].
C4_DegenerateFallsBack ==
  (/\ pc \in {"tempo", "resolved"}
   /\ sampleRate > 0
   /\ given.length >= windowSize
   /\ Degenerate(onsets)) =>
    /\ \A i \in 1..4 : SegmentPaths[i] = "fallback"
    /\ InRange(stableBPM)
    /\ pc = "resolved" => InRange(result)

\* A resolved call on one impulse whose energy reached the estimate.
C4_Witness ==
  /\ pc = "resolved"
  /\ sampleRate > 0
  /\ given.length >= windowSize
  /\ Degenerate(onsets)
  /\ \E i \in 1..Len(filteredOnsets) : filteredOnsets[i] # 0
  /\ Len(filteredOnsets) >= 8
  /\ result # Num(defaultBPM)


\* Every sample multiplied by k.
ScaleBuffer(buffer, k) ==
  Buffer(buffer.length,
         Array([i \in 1..Len(buffer.hops) |-> k * buffer.hops[i]]))

\* The median-filtered onset sequence of a buffer.
FilteredOnsetsOf(buffer) ==
  medianFilter(calculateOnsets(buffer).ret, medianWindow).ret

\* C6: the buffer with every sample doubled gives the same BPM, both through
\* analyzeBPM (which normalises first) and through detectBPM alone; the peaks
\* picked in each segment and each segment's estimate (the histogram winner
\* or the BPM of the winning lag) are the same too.
C6_AmplitudeInvariant ==
  pc = "resolved" =>
    LET scaled == ScaleBuffer(given, 2)
        filtered == FilteredOnsetsOf(given)
        filteredScaled == FilteredOnsetsOf(scaled)
    IN /\ detectBPM(normalizeAudio(scaled).ret, sampleRate) = result
       /\ detectBPM(scaled, sampleRate) = detectBPM(given, sampleRate)
       /\ \A i \in 0..3 :
            pickPeaks(Segment(filteredScaled, i))
              = pickPeaks(Segment(filtered, i))
       /\ Candidates(filteredScaled, sampleRate, hopSize, minBPM, maxBPM)
            = Candidates(filtered, sampleRate, hopSize, minBPM, maxBPM)

\* A resolved call on a periodic track whose unnormalised onsets have peaks.
C6_Witness ==
  /\ pc = "resolved"
  /\ trackPeriod > 0
  /\ \E i \in 0..3 : Len(pickPeaks(Segment(FilteredOnsetsOf(given), i))) >= 2
  /\ result # Num(defaultBPM)

\* C7 as claimed: the result is the rounded estimate of one findTempo pass
\* over the whole onset sequence.
C7_SinglePass ==
  pc = "resolved" =>
    result = MathRound(findTempo(onsets, sampleRate, hopSize, minBPM, maxBPM))

\* The estimate of one segment: the interval-histogram winner of its peaks
\* when there are at least two, else the autocorrelation estimate.
SegmentEstimate(segment) ==
  LET peaks == pickPeaks(segment)
      intervals ==
        Array([k \in 1..(Len(peaks) - 1) |->
                 Frac((peaks[k + 1] - peaks[k]) * hopSize, sampleRate)])
  IN IF Len(peaks) >= 2
       THEN findDominantBPM(createIntervalHistogram(intervals, minBPM, maxBPM),
                            minBPM, maxBPM)
       ELSE estimateBPMFromEnergy(segment, sampleRate, hopSize, minBPM, maxBPM)

\* the first index of v in s
FirstIndex(s, v) == CHOOSE i \in 1..Len(s) :
                      s[i] = v /\ \A j \in 1..(i - 1) : s[j] # v

\* C7 amended: the estimator median-filters the onset sequence, estimates
\* four overlapping segments [i*q, min(i*q + 2q, n)) of the filtered sequence
\* separately, and returns the rounded most frequent of the four estimates,
\* the earliest one on ties.
C7_FourSegmentMode ==
  pc = "resolved" =>
    LET n == Len(filteredOnsets)
        q == n \div 4
        est == [i \in 1..4 |->
                  SegmentEstimate(SubSeq(filteredOnsets, (i - 1) * q + 1,
                                         Min((i - 1) * q + 2 * q, n)))]
    IN /\ bpmCandidates = est
       /\ \E i \in 1..4 : stableBPM = est[i]
       /\ \A j \in 1..4 :
            \/ Count(est, est[j]) < Count(est, stableBPM)
            \/ /\ Count(est, est[j]) = Count(est, stableBPM)
               /\ FirstIndex(est, stableBPM) <= FirstIndex(est, est[j])
       /\ result = MathRound(stableBPM)

\* A resolved call whose four segment estimates are not all equal and whose
\* result differs from the single pass over the unfiltered onsets.
C7_Witness ==
  /\ pc = "resolved"
  /\ sampleRate > 0
  /\ \E i, j \in 1..4 : bpmCandidates[i] # bpmCandidates[j]
  /\ result # MathRound(findTempo(onsets, sampleRate, hopSize, minBPM, maxBPM))

C9_InputUnchanged ==
  /\ channelData = given
  /\ pc \in {"onsets", "filtered", "tempo", "resolved"} =>
       normalizedData = normalizeAudio(given).ret
  /\ pc \in {"filtered", "tempo", "resolved"} =>
       onsets = calculateOnsets(normalizedData).ret
  /\ pc \in {"tempo", "resolved"} =>
       filteredOnsets = medianFilter(onsets, medianWindow).ret

\* A resolved call whose normalised copy differs from the caller's buffer.
C9_Witness ==
  /\ pc = "resolved"
  /\ ~sameArray
  /\ normalizedData # given
  /\ channelData = given

\* ------------------------------------------------------------------------
\* Properties of repeated calls and of the batch
\* ------------------------------------------------------------------------

\* C5: calls of analyzeBPM on the same samples and sample rate resolve with
\* the same BPM, whatever calls on other buffers came before or in between.
C5_Deterministic ==
  \A i, j \in 1..Len(history) :
    (history[i][1] = history[j][1] /\ history[i][2] = history[j][2])
      => history[i][3] = history[j][3]

\* Two resolved calls on the same track, with a call on another buffer that
\* resolved with another BPM between them.
C5_Witness ==
  \E i, j, k \in 1..Len(history) :
    /\ i < k /\ k < j
    /\ history[i][1] = history[j][1]
    /\ history[i][2] = history[j][2]
    /\ history[k][1] # history[i][1]
    /\ history[k][3] # history[i][3]
    /\ history[i][3] # Num(defaultBPM)

\* C10: at most one result has the status 'processing'.
C10_AtMostOneProcessing ==
  Cardinality({i \in 1..Len(results) : results[i].status = "processing"}) <= 1

\* ------------------------------------------------------------------------
\* Pause, resume and uninterrupted runs of the batch
\* ------------------------------------------------------------------------

\* The files whose result has the status 'processing'.
ProcessingSet(rs) == {i \in 1..Len(rs) : rs[i].status = "processing"}

\* C11: while a running batch is paused no further file enters 'processing':
\* a step taken while isProcessing and isPaused hold, and that leaves them
\* holding, gives no result the status 'processing' that did not have it.
C11_PausedStartsNoFile ==
  [][(isProcessing /\ isPaused /\ isProcessing' /\ isPaused')
       => ProcessingSet(results') \subseteq ProcessingSet(results)]_vars

\* The result is 'completed' with a bpm and no error message, or 'error'
\* with a message and no bpm.
Settled(r) ==
  \/ r.status = "completed" /\ r.bpm \in BatchBPMs /\ r.error = ""
  \/ r.status = "error" /\ r.bpm = 0 /\ r.error # ""

\* The files a running call of processBatch awaits the analysis of.
InFlight(ls) == {ls[k].i + 1 : k \in 1..Len(ls)}

\* At most one analysis is in flight, that of the file currentIndex; the
\* files before it are settled and the files after it are pending.
RunInOrder ==
  /\ Len(loops) <= 1
  /\ \A k \in 1..Len(loops) :
       /\ loops[k].i = currentIndex
       /\ \A i \in 1..Len(results) :
            /\ i < loops[k].i + 1 => Settled(results[i])
            /\ i = loops[k].i + 1 => results[i].status = "processing"
            /\ i > loops[k].i + 1 => results[i] = PendingResult
  /\ loops = <<>> =>
       \/ \A i \in 1..Len(results) : results[i] = PendingResult
       \/ \A i \in 1..Len(results) : Settled(results[i])

\* An analysis is started only for a pending file, a settled result never
\* changes again, and a file's result only changes while that file is the
\* one in flight before or after the step.
RunStep ==
  \A i \in 1..Len(results) :
    /\ (i \in InFlight(loops') /\ i \notin InFlight(loops))
         => results[i] = PendingResult
    /\ Settled(results[i]) => results'[i] = results[i]
    /\ results'[i] # results[i]
         => i \in InFlight(loops) \cup InFlight(loops')

\* C12: in a run that is started and not interrupted the analysis is started
\* once per file, in order, its outcome is stored at the file's own index as
\* 'completed' with a bpm or 'error' with a message, and the run goes on
\* after an error until every result is settled and isProcessing is false.
C12_UninterruptedRunCompletes ==
  /\ []RunInOrder
  /\ [][RunStep]_vars
  /\ isProcessing ~>
       (~isProcessing /\ \A i \in 1..Len(results) : Settled(results[i]))

\* A finished run in which a file failed and a later file completed.
C12_Witness ==
  /\ ~isProcessing
  /\ loops = <<>>
  /\ \A i \in 1..Len(results) : Settled(results[i])
  /\ \E i, j \in 1..Len(results) :
       i < j /\ results[i].status = "error" /\ results[j].status = "completed"

\* ------------------------------------------------------------------------
\* Failures of the analysis
\* ------------------------------------------------------------------------

\* C13: a result of the batch with the status 'error' carries no bpm.
C13_ErrorHasNoBpm ==
  \A i \in 1..Len(results) : results[i].status = "error" => results[i].bpm = 0

\* ------------------------------------------------------------------------
\* The stages of detectBPM
\* ------------------------------------------------------------------------

\* C14: the onset sequence has floor((len - windowSize) / hopSize) + 1
\* elements when len >= windowSize, and none otherwise.
C14_OnsetCount ==
  pc \in {"onsets", "filtered", "tempo", "resolved"} =>
    Len(onsets) = IF normalizedData.length >= windowSize
                    THEN (normalizedData.length - windowSize) \div hopSize + 1
                    ELSE 0

\* ------------------------------------------------------------------------
\* Properties of findTempo
\* ------------------------------------------------------------------------

\* The 0-based positions 1 .. len - 2 of the onset sequence that are strictly
\* above both neighbours.
LocalMaxima(onsetSeq) ==
  {i \in 1..(Len(onsetSeq) - 2) :
     onsetSeq[i + 1] > onsetSeq[i] /\ onsetSeq[i + 1] > onsetSeq[i + 2]}

\* The elements of a sequence.
Range(s) == {s[k] : k \in 1..Len(s)}

\* The greatest onset value, 0 for the empty sequence.
MaxOnsetOf(onsetSeq) ==
  IF onsetSeq = <<>> THEN 0
  ELSE CHOOSE m \in Range(onsetSeq) : \A v \in Range(onsetSeq) : v <= m

\* C15 as claimed: the peaks are the local maxima above 0.3 * max(onsets).
C15_MaxThreshold ==
  pc # "findTempo" =>
    Range(peakList) =
      {i \in LocalMaxima(onsets) :
         10 * onsets[i + 1] > 3 * MaxOnsetOf(onsets)}

\* x > mean + 1.5 * stdDev for the mean and the population standard
\* deviation of the n values of the sequence: with S the sum and
\* D = sum of (n * v - S)^2, mean = S / n and stdDev^2 = D / n^3.
AboveDeviation(onsetSeq, x) ==
  LET n == Len(onsetSeq)
      S == Sum(onsetSeq)
      D == Sum([k \in 1..n |-> (n * onsetSeq[k] - S) * (n * onsetSeq[k] - S)])
  IN n * x > S /\ 4 * n * (n * x - S) * (n * x - S) > 9 * D

\* C15 amended: the peak picker returns, in increasing order, exactly the
\* positions i with 1 <= i <= len - 2, onsets[i] > onsets[i-1],
\* onsets[i] > onsets[i+1] and onsets[i] > mean + 1.5 * stdDev of the onset
\* values of the call; neither point of a flat pair is a peak.
C15_DeviationThreshold ==
  pc # "findTempo" =>
    /\ Range(peakList) =
         {i \in LocalMaxima(onsets) : AboveDeviation(onsets, onsets[i + 1])}
    /\ \A k \in 1..(Len(peakList) - 1) : peakList[k] < peakList[k + 1]
    /\ \A i \in 0..(Len(onsets) - 2) :
         onsets[i + 1] = onsets[i + 2] =>
           i \notin Range(peakList) /\ (i + 1) \notin Range(peakList)

\* A sequence with a peak and with a local maximum above 0.3 * max that is
\* no peak.
C15_Witness ==
  /\ pc # "findTempo"
  /\ peakList # <<>>
  /\ \E i \in LocalMaxima(onsets) :
       10 * onsets[i + 1] > 3 * MaxOnsetOf(onsets) /\ i \notin Range(peakList)

\* C16: for every onset sequence, the empty and the one-element sequence
\* included, the peak list is strictly increasing, every entry is an index of
\* the sequence other than the first and the last, and every interval between
\* consecutive peaks is strictly positive.
C16_PeaksValid ==
  pc # "findTempo" =>
    /\ \A k \in 1..(Len(peakList) - 1) : peakList[k] < peakList[k + 1]
    /\ \A p \in Range(peakList) :
         /\ 0 <= p /\ p < Len(onsets)
         /\ p # 0
         /\ p # Len(onsets) - 1
    /\ pc \in {"intervals", "histogram", "returned"} =>
         \A k \in 1..Len(intervalList) :
           IsFinite(intervalList[k]) /\ intervalList[k][1] > 0

\* Three or more peaks and the intervals between them.
C16_Witness ==
  /\ pc = "intervals"
  /\ Len(peakList) >= 3
  /\ Len(intervalList) = Len(peakList) - 1
  /\ \E j, k \in 1..Len(intervalList) : intervalList[j] # intervalList[k]

\* The distance in hops between the k-th peak and the next.
PeakDistance(k) == peakList[k + 1] - peakList[k]

\* The weight of the bucket with the given key, 0 when there is none.
Weight(histogram, key) ==
  Sum([e \in 1..Len(histogram) |->
         IF histogram[e][1] = key THEN histogram[e][2] ELSE 0])

\* The histogram path has built its histogram.
HistogramBuilt ==
  pc = "histogram" \/ (pc = "returned" /\ Len(peakList) >= 2)

\* C17 as claimed: every interval whose BPM, rounded to the nearest integer,
\* lies in [minBPM, maxBPM] has added its weight to the bucket of that
\* integer.
C17_IntegerBuckets ==
  HistogramBuilt =>
    \A k \in 1..Len(intervalList) :
      LET bpm == MathRound(NumDiv(Num(60), intervalList[k]))
      IN (NumLeq(Num(minBPM), bpm) /\ NumLeq(bpm, Num(maxBPM)))
           => Weight(intervalHistogram, bpm) >= 1

\* 2 * round(bpm / 2) for the interval of d hops, bpm = 60 * sampleRate /
\* (d * hopSize): round(x) is floor(x + 1/2).
EvenBucket(d) == 2 * ((60 * sampleRate + d * hopSize) \div (2 * d * hopSize))

\* C17 amended: each consecutive peak pair gives the interval
\* (peaks[k] - peaks[k-1]) * hopSize / sampleRate seconds; its bucket is the
\* even number 2 * round(bpm / 2), bpm = 60 / interval unrounded, and when
\* that number lies in [minBPM, maxBPM] the interval adds 1 to that bucket and
\* nothing otherwise: the weight of a bucket is the number of intervals that
\* fall in it, and there is no other bucket.
C17_EvenBuckets ==
  HistogramBuilt =>
    /\ Len(intervalList) = Len(peakList) - 1
    /\ \A k \in 1..Len(intervalList) :
         intervalList[k] = Frac(PeakDistance(k) * hopSize, sampleRate)
    /\ \A b \in minBPM..maxBPM :
         Weight(intervalHistogram, Num(b)) =
           Cardinality({k \in 1..Len(intervalList) :
                          EvenBucket(PeakDistance(k)) = b})
    /\ \A e \in 1..Len(intervalHistogram) :
         /\ intervalHistogram[e][2] >= 1
         /\ \E b \in minBPM..maxBPM : intervalHistogram[e][1] = Num(b)
         /\ \A f \in 1..Len(intervalHistogram) :
              intervalHistogram[e][1] = intervalHistogram[f][1] => e = f

\* A histogram of two buckets or more, built from an interval whose BPM
\* rounds to an odd integer in [minBPM, maxBPM].
C17_Witness ==
  /\ pc = "histogram"
  /\ Len(intervalHistogram) >= 2
  /\ \E k \in 1..Len(intervalList) :
       LET bpm == MathRound(NumDiv(Num(60), intervalList[k]))
       IN /\ NumLeq(Num(minBPM), bpm) /\ NumLeq(bpm, Num(maxBPM))
          /\ bpm[1] % 2 = 1

\* The intervals fall k >= 1 times in the bucket b and k times in the bucket
\* 2b, both in [minBPM, maxBPM], and nowhere else.
TempoAndDouble(b) ==
  LET hits(x) == {k \in 1..Len(intervalList) : EvenBucket(PeakDistance(k)) = x}
  IN /\ b >= minBPM /\ 2 * b <= maxBPM
     /\ hits(b) # {}
     /\ Cardinality(hits(b)) = Cardinality(hits(2 * b))
     /\ hits(b) \cup hits(2 * b) = 1..Len(intervalList)

FirstHit(key) ==
  CHOOSE k \in 1..Len(intervalList) :
    /\ Num(EvenBucket(PeakDistance(k))) = key
    /\ \A j \in 1..(k - 1) : Num(EvenBucket(PeakDistance(j))) # key

\* C19: the winner is a bucket of the greatest weight, and among the buckets
\* of the greatest weight the one inserted first, the buckets being inserted
\* in the order of the first interval that hit them.
C19_FirstGreatestWins ==
  (pc = "returned" /\ Len(peakList) >= 2 /\ intervalHistogram # <<>>) =>
    /\ \A e, f \in 1..Len(intervalHistogram) :
         e < f => FirstHit(intervalHistogram[e][1])
                    < FirstHit(intervalHistogram[f][1])
    /\ \E e \in 1..Len(intervalHistogram) :
         /\ dominantBPM = intervalHistogram[e][1]
         /\ \A f \in 1..Len(intervalHistogram) :
              /\ intervalHistogram[f][2] <= intervalHistogram[e][2]
              /\ intervalHistogram[f][2] = intervalHistogram[e][2] => e <= f

\* Two buckets of the same weight, the earlier one the winner and the later
\* one not.
C19_Witness ==
  /\ pc = "returned"
  /\ Len(intervalHistogram) >= 2
  /\ \E e, f \in 1..Len(intervalHistogram) :
       /\ e < f
       /\ intervalHistogram[e][2] = intervalHistogram[f][2]
       /\ dominantBPM = intervalHistogram[e][1]
       /\ dominantBPM # intervalHistogram[f][1]

\* C20: with two peaks or more and no interval in a bucket of
\* [minBPM, maxBPM] the histogram is empty and the histogram path returns
\* exactly 120.
C20_EmptyHistogramDefault ==
  (pc = "returned" /\ Len(peakList) >= 2
     /\ \A k \in 1..Len(intervalList) :
          EvenBucket(PeakDistance(k)) \notin minBPM..maxBPM)
    => /\ intervalHistogram = <<>>
       /\ dominantBPM = Num(defaultBPM)
       /\ bpmCandidates = <<Num(defaultBPM)>>

\* The histogram path has returned from an empty histogram of three intervals
\* or more.
C20_Witness ==
  /\ pc = "returned"
  /\ Len(peakList) >= 4
  /\ Len(intervalList) = Len(peakList) - 1
  /\ intervalHistogram = <<>>
  /\ bpmCandidates = <<Num(defaultBPM)>>

\* ------------------------------------------------------------------------
\* Properties of the autocorrelation fallback
\* ------------------------------------------------------------------------

\* findTempo has returned through estimateBPMFromEnergy.
FallbackTaken == pc = "returned" /\ Len(peakList) < 2

\* The lags from floor(60*sampleRate / (maxBPM*hopSize)) to
\* floor(60*sampleRate / (minBPM*hopSize)).
LagRange ==
  ((60 * sampleRate) \div (maxBPM * hopSize))
    .. ((60 * sampleRate) \div (minBPM * hopSize))

\* The lags of the range with at least one i, lag <= i < len(onsets).
ValidLags == {lag \in LagRange : lag < Len(onsets)}

\* The sum of onsets[i] * onsets[i - lag] over lag <= i < len(onsets); the
\* mean is this sum over len(onsets) - lag.
ProductSum(lag) ==
  SumRange([i \in (lag + 1)..Len(onsets) |-> onsets[i] * onsets[i - lag]],
           lag + 1, Len(onsets))

\* The mean of lag a is less than the mean of lag b.
MeanLess(a, b) ==
  ProductSum(a) * (Len(onsets) - b) < ProductSum(b) * (Len(onsets) - a)

\* The smallest of the valid lags whose mean is highest.
HighestMeanLag ==
  CHOOSE lag \in ValidLags :
    \A other \in ValidLags :
      /\ ~MeanLess(lag, other)
      /\ other < lag => MeanLess(other, lag)

\* 60 * sampleRate / (lag * hopSize)
LagBPM(lag) == Frac(60 * sampleRate, lag * hopSize)

\* C21 as stated: the fallback returns, before clamping, the BPM of the
\* smallest lag of the range whose mean product is highest.
C21_HighestMeanLagWins ==
  (FallbackTaken /\ ValidLags # {}) => bestBPM = LagBPM(HighestMeanLag)

\* C21: the fallback examines the lags of the range, and before clamping its
\* value is the BPM of the smallest lag whose mean product is highest when
\* that mean is positive, and the default 120 when no lag has a positive
\* mean.
C21_PositiveMeanLagWins ==
  FallbackTaken =>
    bestBPM = IF ValidLags # {} /\ ProductSum(HighestMeanLag) > 0
                THEN LagBPM(HighestMeanLag)
                ELSE Num(defaultBPM)

\* The fallback has chosen a lag other than the first of the range, with a
\* positive mean that a larger lag equals.
C21_Witness ==
  /\ FallbackTaken
  /\ ValidLags # {}
  /\ ProductSum(HighestMeanLag) > 0
  /\ \E first \in ValidLags : first < HighestMeanLag
  /\ \E other \in ValidLags :
       /\ other > HighestMeanLag
       /\ ~MeanLess(other, HighestMeanLag)
  /\ bestBPM = LagBPM(HighestMeanLag)
  /\ bestBPM # Num(defaultBPM)

\* max(minBPM, min(maxBPM, x)) of a finite x
ClampBPM(x) ==
  IF NumLess(x, Num(minBPM)) THEN Num(minBPM)
  ELSE IF NumLess(Num(maxBPM), x) THEN Num(maxBPM)
  ELSE x

\* C22: the value the fallback returns is max(minBPM, min(maxBPM, bpm)) of
\* the value of the lag loop; when no lag of the range has a valid sample
\* (the onset sequence is no longer than minLag, or minLag > maxLag) it is
\* the default 120; and the loop's winner, when there is one, is a lag with
\* at least one valid sample.  (For the sample rate -44100 the range is
\* -26 .. -87, with minLag > maxLag.)
C22_NoValidLagDefault ==
  FallbackTaken =>
    /\ bpmCandidates[1] = ClampBPM(bestBPM)
    /\ ValidLags = {} =>
         bestBPM = Num(defaultBPM) /\ bpmCandidates[1] = Num(defaultBPM)
    /\ \/ maxCorrelation = <<0, 1>> /\ bestBPM = Num(defaultBPM)
       \/ \E lag \in ValidLags :
            /\ maxCorrelation = <<ProductSum(lag), Len(onsets) - lag>>
            /\ bestBPM = LagBPM(lag)
    /\ LET negativeRate == -44100
       IN /\ (60 * negativeRate) \div (maxBPM * hopSize)
               > (60 * negativeRate) \div (minBPM * hopSize)
          /\ estimateBPMFromEnergy(onsets, negativeRate, hopSize, minBPM,
                                   maxBPM) = Num(defaultBPM)

\* The fallback has returned for an onset sequence that is not silent and
\* is too short for every lag of a range that is not empty.
C22_Witness ==
  /\ FallbackTaken
  /\ LagRange # {}
  /\ ValidLags = {}
  /\ Len(onsets) >= 2
  /\ \E i \in 1..Len(onsets) : onsets[i] # 0
  /\ bpmCandidates = <<Num(defaultBPM)>>

\* ------------------------------------------------------------------------
\* Properties of the single-file page
\* ------------------------------------------------------------------------

\* C23: in single-file mode a BPM that is shown is the BPM of the file that
\* is selected: while no analysis of the selected file has completed, and
\* after a change to batch mode and back, bpm is null.
C23_BpmOfSelectedFile ==
  (mode = "single" /\ indexBpm # 0) =>
    (audioFile # NoFile /\ indexBpm = audioFile.tempo)

\* C24: the page's 'analyzing' state ends: whenever Index.isAnalyzing is
\* true it eventually becomes false again, whether analyzeBPM resolves or
\* rejects.
C24_AnalyzingEnds == isAnalyzing ~> ~isAnalyzing

\* ------------------------------------------------------------------------
\* Properties of the batch state
\* ------------------------------------------------------------------------

\* The state of BatchProcessor and of the parent's result list after
\* resetProcessing.
ResetState ==
  /\ Len(results) = Len(batchFiles)
  /\ \A i \in 1..Len(results) : results[i] = PendingResult
  /\ resultFiles = batchFiles
  /\ currentIndex = -1
  /\ ~isProcessing
  /\ ~isPaused
  /\ batchResults = <<>>

\* C25: Reset restores the initial batch state, and the state stays restored
\* in every step other than a click on Start, also when an analysis was in
\* flight at the time of the Reset.
C25_ResetStays ==
  [][/\ ClickReset => ResetState'
     /\ (ResetState /\ ~ClickStart) => ResetState']_vars

\* ------------------------------------------------------------------------
\* The batch driver while other files are selected
\* ------------------------------------------------------------------------

\* BatchProcessor stays mounted in batch mode: the user selects files, starts
\* the analysis and resets it.
NextSelect ==
  \/ HandleDrop
  \/ ClickStart
  \/ ClickReset
  \/ AnalysisResolves
  \/ AnalysisRejects

SpecSelect == InitBatch /\ [][NextSelect]_vars

\* C26: while BatchProcessor is mounted, results has one entry for every
\* file of the files prop, in the same order and for the same file, and the
\* number of settled results does not exceed the number of files.
C26_ResultsMirrorFiles ==
  (mode = "batch" /\ batchFiles # <<>>) =>
    /\ Len(results) = Len(batchFiles)
    /\ resultFiles = batchFiles
    /\ SettledCount(results) <= Len(batchFiles)

\* ------------------------------------------------------------------------
\* Properties of the upload
\* ------------------------------------------------------------------------

\* The name ends with one of the accepted types (a dot and an extension),
\* compared without regard to case.
EndsWithAccepted(name) ==
  \E k \in 1..Len(acceptedTypes) :
    /\ Len(name) >= Len(acceptedTypes[k])
    /\ toLowerCase(SubSeq(name, Len(name) - Len(acceptedTypes[k]) + 1,
                          Len(name))) = acceptedTypes[k]

\* The file has an accepted extension and at most 100 MB.
Acceptable(file) ==
  EndsWithAccepted(file.name) /\ file.size <= 100 * 1024 * 1024

\* C27: every file that the upload passes on has a name that ends with a dot
\* and an accepted extension, and at most 100 MB; in multi-file mode the
\* files passed on are the acceptable ones in their original order, and no
\* callback is made when there is none.
C27_OnlyAcceptableFilesPassed ==
  [][HandleFileInput =>
       /\ \A i \in 1..Len(selected'.files) : Acceptable(selected'.files[i])
       /\ mode = "batch" =>
            /\ selected'.files = SelectSeq(dropped, Acceptable)
            /\ selected'.files = <<>> => selected'.prop = "none"]_vars

\* ------------------------------------------------------------------------
\* Resources
\* ------------------------------------------------------------------------

\* C28: the AudioContext that analyzeBPM created is closed by the time the
\* call has settled, resolved or rejected.
C28_ContextClosedWhenSettled ==
  pc \in {"resolved", "rejected"} => audioContext = "closed"

\* ------------------------------------------------------------------------
\* Properties of findStableTempo and of medianFilter
\* ------------------------------------------------------------------------

\* The part [start, end) of the filtered onsets (0-based, end exclusive).
OnsetsFrom(start, end) ==
  [k \in 1..(IF end > start THEN end - start ELSE 0) |->
     filteredOnsets[start + k]]

\* The segments that have the given estimate.
SegmentsWith(v) == {i \in 1..4 : bpmCandidates[i] = v}

\* The earliest of the segments whose estimate occurs most often.
ModeSegment ==
  CHOOSE i \in 1..4 :
    /\ \A j \in 1..4 :
         Cardinality(SegmentsWith(bpmCandidates[j]))
           <= Cardinality(SegmentsWith(bpmCandidates[i]))
    /\ \A j \in 1..(i - 1) :
         Cardinality(SegmentsWith(bpmCandidates[j]))
           < Cardinality(SegmentsWith(bpmCandidates[i]))

\* C29: findStableTempo estimates the tempo of the four segments
\* [i*q, min(i*q + 2q, n)) of its onset sequence, q = floor(n / 4), with
\* findTempo, and returns the estimate that occurs most often, that of the
\* earliest segment on ties; for n < 4 the four segments are empty and the
\* result is 120.
C29_StableTempoIsMode ==
  pc \in {"tempo", "resolved"} =>
    LET n == Len(filteredOnsets)
        q == n \div 4
    IN /\ Len(bpmCandidates) = 4
       /\ \A i \in 0..3 :
            bpmCandidates[i + 1] =
              findTempo(OnsetsFrom(i * q, Min(i * q + 2 * q, n)), sampleRate,
                        hopSize, minBPM, maxBPM)
       /\ stableBPM = bpmCandidates[ModeSegment]
       /\ n < 4 =>
            /\ \A i \in 0..3 : OnsetsFrom(i * q, Min(i * q + 2 * q, n)) = <<>>
            /\ \A i \in 1..4 : bpmCandidates[i] = Num(defaultBPM)
            /\ stableBPM = Num(defaultBPM)

\* findStableTempo has returned the estimate of the first segment, which
\* occurs twice, as does another estimate.
C29_Witness ==
  /\ pc = "tempo"
  /\ sampleRate > 0
  /\ Len(filteredOnsets) >= 4
  /\ \E v \in {bpmCandidates[i] : i \in 1..4} :
       v # stableBPM /\ Cardinality(SegmentsWith(v)) = 2
  /\ Cardinality(SegmentsWith(stableBPM)) = 2
  /\ stableBPM = bpmCandidates[1]

\* ------------------------------------------------------------------------
\* C30  medianFilter, window 3

\* the positions among i-1, i, i+1 that lie inside the onset sequence
InBounds(i) == {j \in {i - 1, i, i + 1} : j \in 1..Len(onsets)}

\* v is an in-bounds value at i with at least k in-bounds values on each side
\* of it, itself included
MiddleOf(v, i, k) ==
  /\ \E j \in InBounds(i) : onsets[j] = v
  /\ Cardinality({j \in InBounds(i) : onsets[j] <= v}) >= k
  /\ Cardinality({j \in InBounds(i) : onsets[j] >= v}) >= k

\* C30: medianFilter with window 3 returns a sequence as long as its input;
\* element i is the median of the in-bounds values among data[i-1], data[i],
\* data[i+1], at an end position with two values in bounds the larger of
\* the two, and every output value is one of the input values.
C30_MedianOfNeighbours ==
  pc \in {"filtered", "tempo", "resolved"} =>
    /\ Len(filteredOnsets) = Len(onsets)
    /\ \A i \in 1..Len(filteredOnsets) :
         /\ Cardinality(InBounds(i)) = 3 => MiddleOf(filteredOnsets[i], i, 2)
         /\ Cardinality(InBounds(i)) = 2 =>
              /\ \E j \in InBounds(i) : onsets[j] = filteredOnsets[i]
              /\ \A j \in InBounds(i) : onsets[j] <= filteredOnsets[i]
         /\ Cardinality(InBounds(i)) = 1 => filteredOnsets[i] = onsets[i]
         /\ \E j \in 1..Len(onsets) : onsets[j] = filteredOnsets[i]

\* medianFilter has replaced the first onset by its larger neighbour and an
\* inner onset by the median of the three around it.
C30_Witness ==
  /\ pc = "filtered"
  /\ Len(onsets) >= 3
  /\ filteredOnsets[1] = onsets[2]
  /\ onsets[1] < onsets[2]
  /\ \E i \in 2..(Len(onsets) - 1) :
       /\ filteredOnsets[i] # onsets[i]
       /\ MiddleOf(filteredOnsets[i], i, 2)

====
